---- MODULE Spec2Model ----
(***************************************************************************)
(* Model of the filestore asset layer of DataBroker:                       *)
(*   databroker/_fs/filestore/fs.py        FileStoreRO / FileStore         *)
(*   databroker/_fs/portable_fs/sqlite/fs.py  the relational collections   *)
(* The module `core` that fs.py delegates to (retrieve, insert_resource,   *)
(* insert_datum, resource_given_uid, update_resource, get_resource_history,*)
(* get_datum_by_res_gen, get_file_list) is not part of the sources; those  *)
(* operators are written from the specification (sections 4.3 to 4.5)      *)
(* and are marked "core_" below.                                           *)
(*                                                                         *)
(* Paths are sequences of one-character strings, so that os.path.join is   *)
(* computed and not assumed.  A handler constructor is a record with an    *)
(* identity and a __name__; two distinct constructors may share a name.    *)
(* The handler and resource caches are boltons LRU(max_size=128) and the   *)
(* datum cache LRU(max_size=1000000): with the bounds below no cache ever  *)
(* holds more than a handful of keys, so capacity eviction never happens.  *)
(***************************************************************************)
EXTENDS Integers, Sequences, FiniteSets, TLC

\* ------------------------------------------------------------------ bounds
MaxResources == 1
MaxDatums == 1
MaxDepth == 2
MaxShift == 3
MaxUpdates == 3

\* ------------------------------------------------------------ input domains
\* Python's None, and the outcome of a call that raised nothing
None == [none |-> TRUE]
OK == "OK"
sep == "/"

UIDs == 1..MaxResources
\* the uids of a store that holds one resource more
UIDs2 == 1..(MaxResources + 1)
\* datum ids are chosen by the caller; at most MaxDatums of them get stored
DatumIds == 1..(MaxDatums + 1)
DictIds == 0..MaxDepth

Specs == {"syn-mod"}

ImageHandler == [id |-> 1, name |-> "ImageHandler"]
DummyHandler == [id |-> 2, name |-> "DummyHandler"]
ImageHandler2 == [id |-> 3, name |-> "ImageHandler"]
Handlers == {ImageHandler, DummyHandler, ImageHandler2}
\* a handler that also lists its files (get_file_list)
ReaderWithFSHandler == [id |-> 4, name |-> "ReaderWithFSHandler"]
FileHandlers == {ReaderWithFSHandler}

Roots == {<<>>, <<"a">>}
ResourcePaths == {<<"f">>}
ResourceKwargs == {0}
DatumKwargs == {0, 1}

\* roots and resource paths of the resources that get relocated: empty,
\* relative and absolute roots, relative and absolute resource paths
ShiftRoots == {<<>>, <<"a">>, <<"/", "a">>, <<"a", "/", "b">>}
ShiftPaths == {<<"c">>, <<"c", "/", "d">>, <<"/", "c">>}
Shifts == (0 - MaxShift)..MaxShift

\* resources whose files get copied, and the roots they are copied to
MoveRoots == {<<>>, <<"a">>}
MovePaths == {<<"f">>, <<"/", "f">>}
NewRoots == {<<"a">>, <<"b">>}
\* the same with an absolute root, and an absolute resource path that
\* begins with the characters of that root without lying under it
CopyRoots == MoveRoots \cup {<<"/", "a">>}
CopyPaths == MovePaths \cup {<<"/", "a", "b">>}
\* what a caller may pass as file_rename_hook
Hooks == {"None", "returns", "raises"}

EmptyMap == [k \in {} |-> None]
EmptyReg == [s \in Specs |-> None]

\* dictionaries a caller may hand to handler_context: at most one binding
TempHandlers == {EmptyReg} \cup
    {[s \in Specs |-> IF s = t THEN h ELSE None] : t \in Specs, h \in Handlers}

RootMaps == {EmptyMap, [r \in {<<"a">>} |-> <<"b">>]}

\* -------------------------------------------------------------------- state
VARIABLES
    Resources,        \* Resources table:  uid -> resource document
    Datums,           \* Datums table:     datum_id -> datum document
    dicts,            \* heap of registry dictionaries: DictId -> (spec -> ctor)
    handler_reg,      \* self.handler_reg: the ChainMap's maps, innermost first
    contexts,         \* open handler_context blocks, outermost first: the
                      \* block's locals stash and temp_handlers, and the
                      \* registry's dictionaries as they were at entry
    root_map,         \* self.root_map
    _datum_cache,     \* self._datum_cache
    _handler_cache,   \* self._handler_cache: <<uid, name>> -> handler instance
    _resource_cache,  \* self._resource_cache: uid -> resource document
    last,             \* the call made by the last step and its outcome
    ResourceUpdates,  \* ResourceUpdates table: the rows in insertion order
    files,            \* the file system: path -> content of the file there
    version,          \* self.version, the schema version of the store
    call,             \* the change_root call in progress and how far it is
    sentinel,         \* document backend: the version sentinels stored in the
                      \* database, collection name -> version
    __db,             \* self.__db
    __res_col,        \* self.__res_col
    __datum_col,      \* self.__datum_col
    __res_update_col, \* self.__res_update_col
    __conn,           \* self.__conn
    callers,          \* the calls several callers have in progress on the
                      \* one FileStore: caller -> position and locals
    datum_rows,       \* the datum table those callers insert into, as the
                      \* rows in insertion order
    unique_index,     \* whether that table has its unique datum_id key
    config            \* self.config: the database the FileStore is
                      \* configured for

vars == <<Resources, Datums, dicts, handler_reg, contexts, root_map,
          _datum_cache, _handler_cache, _resource_cache, last,
          ResourceUpdates, files, version, call, sentinel, __db, __res_col,
          __datum_col, __res_update_col, __conn, callers, datum_rows,
          unique_index, config>>

\* the lazily opened handles of the document backend, and its sentinels
backend_vars ==
    <<sentinel, __db, __res_col, __datum_col, __res_update_col, __conn,
      config>>

\* the callers that share the FileStore, and the table they race on
caller_vars == <<callers, datum_rows, unique_index>>

\* what the registry and retrieval operations never touch
relocation_vars == <<ResourceUpdates, files, version>>

\* ------------------------------------------------------------------ helpers
Put(f, k, v) == [x \in DOMAIN f \cup {k} |-> IF x = k THEN v ELSE f[x]]

Restrict(f, S) == [x \in S |-> f[x]]

startswith(s, p) == Len(s) >= Len(p) /\ SubSeq(s, 1, Len(p)) = p

endswith(s, p) == Len(s) >= Len(p) /\ SubSeq(s, Len(s) - Len(p) + 1, Len(s)) = p

\* os.path.join(a, b) on a posix system
os_path_join(a, b) ==
    IF startswith(b, <<sep>>) THEN b
    ELSE IF a = <<>> \/ endswith(a, <<sep>>) THEN a \o b
    ELSE a \o <<sep>> \o b

__name__(handler) == handler.name

\* handler(rpath, **kwargs): the instance remembers what it was built from
\* (`via` is the registry dictionary the constructor was looked up in)
Construct(handler, rpath, kwargs, via) ==
    [ctor |-> handler, path |-> rpath, kwargs |-> kwargs, via |-> via]

\* instance(**datum_kwargs): the payload is determined by the constructor,
\* the path, the resource kwargs and the datum kwargs
Call(inst, datum_kwargs) ==
    [ctor |-> inst.ctor, path |-> inst.path, rk |-> inst.kwargs,
     dk |-> datum_kwargs]

\* ----------------------------------------------------------------- ChainMap
\* index in maps of the first dictionary that binds k, 0 when none does
RECURSIVE FirstBinding(_, _, _)
FirstBinding(maps, k, i) ==
    IF i > Len(maps) THEN 0
    ELSE IF dicts[maps[i]][k] # None THEN i
    ELSE FirstBinding(maps, k, i + 1)

ChainMap_contains(maps, k) == FirstBinding(maps, k, 1) # 0

ChainMap_getitem(maps, k) == dicts[maps[FirstBinding(maps, k, 1)]][k]

\* the dictionary the binding of k is found in
ChainMap_where(maps, k) == maps[FirstBinding(maps, k, 1)]

\* ------------------------------------------------------- relational backend
\* SELECT * FROM Datums WHERE datum_id=?  -> the row, or None
DatumCollection_find_one(datum_id) ==
    IF datum_id \in DOMAIN Datums THEN Datums[datum_id] ELSE None

\* SELECT * FROM Resources WHERE uid=?  -> the row, or None
ResourceCollection_find_one(uid) ==
    IF uid \in DOMAIN Resources THEN Resources[uid] ELSE None

\* INSERT OR REPLACE: the row of an existing key is overwritten
DatumCollection_insert_or_replace(datum) ==
    [err |-> OK, table |-> Put(Datums, datum.datum_id, datum)]

\* INSERT INTO Datums: datum_id is the primary key, a second row with the
\* same key raises IntegrityError (DuplicateKeyError) and is rolled back
DatumCollection_insert_one(datum) ==
    IF datum.datum_id \in DOMAIN Datums
    THEN [err |-> "DuplicateKeyError", table |-> Datums]
    ELSE [err |-> OK, table |-> Put(Datums, datum.datum_id, datum)]

\* INSERT INTO Resources
ResourceCollection_insert_one(resource) ==
    Put(Resources, resource.uid, resource)

\* ------------------------------------------------- core (from the spec text)
\* resource_given_uid: fetch the Resource from the backend, NotFound if absent
core_resource_given_uid(uid) ==
    LET doc == ResourceCollection_find_one(uid) IN
    IF doc = None THEN [err |-> "NotFound", doc |-> None]
    ELSE [err |-> OK, doc |-> doc]

\* insert_resource: a new Resource under a fresh uid
core_insert_resource(uid, spec, resource_path, resource_kwargs, root) ==
    ResourceCollection_insert_one(
        [uid |-> uid, spec |-> spec, resource_path |-> resource_path,
         root |-> root, resource_kwargs |-> resource_kwargs])

\* insert_datum: the resource is looked up in the resource collection, then
\* the datum row is inserted
core_insert_datum(resource, datum_id, datum_kwargs) ==
    IF core_resource_given_uid(resource).err # OK
    THEN [err |-> "NotFound", table |-> Datums]
    ELSE DatumCollection_insert_one(
            [datum_id |-> datum_id, resource |-> resource,
             datum_kwargs |-> datum_kwargs])

\* INSERT INTO Datums with executemany, in one transaction: a key that is
\* in the table or twice in the batch raises and the batch is rolled back;
\* the resource column is not checked against the Resources table
DatumCollection_insert(datums) ==
    IF \/ \E k \in DOMAIN datums : datums[k].datum_id \in DOMAIN Datums
       \/ \E k, l \in DOMAIN datums :
                k # l /\ datums[k].datum_id = datums[l].datum_id
    THEN [err |-> "DuplicateKeyError", table |-> Datums]
    ELSE [err |-> OK,
          table |-> [d \in DOMAIN Datums \cup
                            {datums[k].datum_id : k \in DOMAIN datums} |->
                        IF d \in DOMAIN Datums THEN Datums[d]
                        ELSE LET k == CHOOSE k \in DOMAIN datums :
                                        datums[k].datum_id = d
                             IN  datums[k]]]

\* bulk_insert_datum: it is handed the datum collection only, so the
\* rows are inserted without a look at the resource collection
core_bulk_insert_datum(resource, datum_ids, datum_kwarg_list) ==
    DatumCollection_insert(
        [k \in 1..(IF Len(datum_ids) < Len(datum_kwarg_list)
                   THEN Len(datum_ids) ELSE Len(datum_kwarg_list)) |->
            [datum_id |-> datum_ids[k], resource |-> resource,
             datum_kwargs |-> datum_kwarg_list[k]]])

\* ------------------------------------------------------------- FileStoreRO
\* a resource cache that answers a miss with an empty document of the
\* default spec, without asking the backend
resource_cache_getitem_default(uid) ==
    IF uid \in DOMAIN _resource_cache
    THEN [err |-> OK, doc |-> _resource_cache[uid], cache |-> _resource_cache]
    ELSE [err |-> OK,
          doc |-> [uid |-> uid, spec |-> "syn-mod", resource_path |-> <<>>,
                   root |-> <<>>, resource_kwargs |-> 0],
          cache |-> _resource_cache]

\* self._resource_cache[uid]: LRU(on_miss=self._r_on_miss), read-through
resource_cache_getitem(uid) ==
    IF uid \in DOMAIN _resource_cache
    THEN [err |-> OK, doc |-> _resource_cache[uid], cache |-> _resource_cache]
    ELSE LET r == core_resource_given_uid(uid) IN
         IF r.err # OK
         THEN [err |-> r.err, doc |-> None, cache |-> _resource_cache]
         ELSE [err |-> OK, doc |-> r.doc,
               cache |-> Put(_resource_cache, uid, r.doc)]

\* self.root_map.get(root, root)
root_map_get(root) == IF root \in DOMAIN root_map THEN root_map[root] ELSE root

\* the path handed to the handler constructor
handler_path(resource) ==
    LET root == root_map_get(resource.root) IN
    IF root # <<>> THEN os_path_join(root, resource.resource_path)
    ELSE resource.resource_path

\* a get_spec_handler that constructs an instance on every call and
\* leaves the handler cache alone
get_spec_handler_uncached(uid) ==
    LET r == resource_cache_getitem(uid) IN
    IF r.err # OK
    THEN [err |-> r.err, ret |-> None, handler |-> None, built |-> FALSE,
          hcache |-> _handler_cache, rcache |-> r.cache]
    ELSE IF ~ChainMap_contains(handler_reg, r.doc.spec)
    THEN [err |-> "KeyError", ret |-> None, handler |-> None, built |-> FALSE,
          hcache |-> _handler_cache, rcache |-> r.cache]
    ELSE LET handler == ChainMap_getitem(handler_reg, r.doc.spec) IN
         [err |-> OK,
          ret |-> Construct(handler, handler_path(r.doc),
                            r.doc.resource_kwargs,
                            ChainMap_where(handler_reg, r.doc.spec)),
          handler |-> handler, built |-> TRUE,
          hcache |-> _handler_cache, rcache |-> r.cache]

\* get_spec_handler(resource): err, the instance returned, the constructor
\* looked up, whether an instance was constructed, and the caches afterwards
get_spec_handler(uid) ==
    LET r == resource_cache_getitem(uid) IN
    IF r.err # OK
    THEN [err |-> r.err, ret |-> None, handler |-> None, built |-> FALSE,
          hcache |-> _handler_cache, rcache |-> r.cache]
    ELSE IF ~ChainMap_contains(handler_reg, r.doc.spec)
    THEN [err |-> "KeyError", ret |-> None, handler |-> None, built |-> FALSE,
          hcache |-> _handler_cache, rcache |-> r.cache]
    ELSE LET handler == ChainMap_getitem(handler_reg, r.doc.spec)
             key == <<r.doc.uid, __name__(handler)>>
         IN  IF key \in DOMAIN _handler_cache
             THEN [err |-> OK, ret |-> _handler_cache[key],
                   handler |-> handler, built |-> FALSE,
                   hcache |-> _handler_cache, rcache |-> r.cache]
             ELSE LET ret == Construct(handler, handler_path(r.doc),
                                       r.doc.resource_kwargs,
                                       ChainMap_where(handler_reg, r.doc.spec))
                  IN  [err |-> OK, ret |-> ret, handler |-> handler,
                       built |-> TRUE,
                       hcache |-> Put(_handler_cache, key, ret),
                       rcache |-> r.cache]

\* core.retrieve(datum_col, eid, datum_cache, get_spec_handler, logger),
\* section 4.4: cached value on a hit; on a miss the Datum record, the
\* handler, the call, and the result stored in the datum cache
core_retrieve(eid, datum_cache) ==
    IF eid \in DOMAIN datum_cache
    THEN [err |-> OK, ret |-> datum_cache[eid], built |-> FALSE,
          dcache |-> datum_cache, hcache |-> _handler_cache,
          rcache |-> _resource_cache]
    ELSE LET datum == DatumCollection_find_one(eid) IN
         IF datum = None
         THEN [err |-> "DatumNotFound", ret |-> None, built |-> FALSE,
               dcache |-> datum_cache, hcache |-> _handler_cache,
               rcache |-> _resource_cache]
         ELSE LET h == get_spec_handler(datum.resource) IN
              IF h.err # OK
              THEN [err |-> h.err, ret |-> None, built |-> FALSE,
                    dcache |-> datum_cache, hcache |-> h.hcache,
                    rcache |-> h.rcache]
              ELSE LET value == Call(h.ret, datum.datum_kwargs) IN
                   [err |-> OK, ret |-> value, built |-> h.built,
                    dcache |-> Put(datum_cache, eid, value),
                    hcache |-> h.hcache, rcache |-> h.rcache]

\* FileStoreRO.retrieve with the resource cache handed to core.retrieve in
\* place of the datum cache
retrieve_wrong_cache(eid) == core_retrieve(eid, _resource_cache)

\* FileStoreRO.retrieve
retrieve(eid) == core_retrieve(eid, _datum_cache)

\* the handler cache without the entries whose key names `name`
evict_name(cache, name) ==
    Restrict(cache, {k \in DOMAIN cache : k[2] # name})

\* deregister_handler without the eviction loop
deregister_handler_no_evict(key) ==
    [dicts |-> [dicts EXCEPT ![handler_reg[1]][key] = None],
     hcache |-> _handler_cache]

\* deregister_handler(key): pop from the innermost dictionary; the registry
\* dictionaries and the handler cache afterwards
deregister_handler(key) ==
    LET d == handler_reg[1]
        handler == dicts[d][key]
    IN  IF handler # None
        THEN [dicts |-> [dicts EXCEPT ![d][key] = None],
              hcache |-> evict_name(_handler_cache, __name__(handler))]
        ELSE [dicts |-> dicts, hcache |-> _handler_cache]

\* register_handler comparing the bound constructor by __name__, not identity
register_handler_by_name(key, handler, overwrite) ==
    IF (~overwrite) /\ ChainMap_contains(handler_reg, key)
    THEN IF __name__(ChainMap_getitem(handler_reg, key)) = __name__(handler)
         THEN [err |-> OK, dicts |-> dicts, hcache |-> _handler_cache]
         ELSE [err |-> "DuplicateHandler", dicts |-> dicts,
               hcache |-> _handler_cache]
    ELSE LET r == deregister_handler(key) IN
         [err |-> OK,
          dicts |-> [r.dicts EXCEPT ![handler_reg[1]][key] = handler],
          hcache |-> r.hcache]

\* register_handler(key, handler, overwrite)
register_handler(key, handler, overwrite) ==
    IF (~overwrite) /\ ChainMap_contains(handler_reg, key)
    THEN IF ChainMap_getitem(handler_reg, key) = handler
         THEN [err |-> OK, dicts |-> dicts, hcache |-> _handler_cache]
         ELSE [err |-> "DuplicateHandler", dicts |-> dicts,
               hcache |-> _handler_cache]
    ELSE LET r == deregister_handler(key) IN
         [err |-> OK,
          dicts |-> [r.dicts EXCEPT ![handler_reg[1]][key] = handler],
          hcache |-> r.hcache]

\* the dictionary handler_context allocates for temp_handlers
Referenced == {handler_reg[i] : i \in DOMAIN handler_reg} \cup
    UNION {{contexts[c].stash[i] : i \in DOMAIN contexts[c].stash} :
           c \in DOMAIN contexts}

FreshDict == CHOOSE d \in DictIds \ Referenced :
                \A e \in DictIds \ Referenced : d <= e

\* new_child with the new map consulted last
new_child_fallback(maps, d) == maps \o <<d>>

\* self.handler_reg.new_child(temp_handlers): the new map goes first
new_child(maps, d) == <<d>> \o maps

\* the handler cache after the finally-block of handler_context: every
\* entry named like a handler of the popped dictionary is dropped
RECURSIVE evict_popped(_, _, _)
evict_popped(cache, popped_reg, specs) ==
    IF specs = {} THEN cache
    ELSE LET s == CHOOSE x \in specs : TRUE
             c == IF popped_reg[s] = None THEN cache
                  ELSE evict_name(cache, __name__(popped_reg[s]))
         IN  evict_popped(c, popped_reg, specs \ {s})

\* the registry as a caller sees it: spec -> constructor or None
View(maps) == [s \in Specs |->
    IF ChainMap_contains(maps, s) THEN ChainMap_getitem(maps, s) ELSE None]

\* the registry's dictionaries by value
Snapshot(maps) == [i \in DOMAIN maps |-> dicts[maps[i]]]

\* the finally-block without the eviction loop
handler_context_exit_no_evict(stash) ==
    [reg |-> stash, popped |-> handler_reg[1], hcache |-> _handler_cache]

\* the finally-block of handler_context: registry and handler cache afterwards
handler_context_exit(stash) ==
    LET popped == handler_reg[1] IN
    [reg |-> stash,
     popped |-> popped,
     hcache |-> evict_popped(_handler_cache, dicts[popped], Specs)]

\* ----------------------------------------------------- relocation: backend
\* an UPDATE that matches no row
ResourceCollection_replace_none(resource) == Resources

\* UPDATE Resources SET ... WHERE uid=?  (the uid is taken from the document)
ResourceCollection_replace_one(resource) ==
    IF resource.uid \in DOMAIN Resources
    THEN [Resources EXCEPT ![resource.uid] = resource]
    ELSE Resources

\* INSERT INTO ResourceUpdates
ResourceUpdatesCollection_insert_one(log_object) ==
    Append(ResourceUpdates, log_object)

\* the rows of a sequence put in ascending order of time, rows of equal
\* time in the order they have in the sequence
RECURSIVE order_by_time(_)
order_by_time(rows) ==
    IF rows = <<>> THEN <<>>
    ELSE LET n == Len(rows)
             r == rows[n]
             front == order_by_time(SubSeq(rows, 1, n - 1))
             le == SelectSeq(front, LAMBDA x : x.time <= r.time)
             gt == SelectSeq(front, LAMBDA x : x.time > r.time)
         IN  le \o <<r>> \o gt

\* the SELECT without its WHERE clause: the rows of every resource
ResourceUpdatesCollection_find_all(uid) == order_by_time(ResourceUpdates)

\* SELECT * FROM ResourceUpdates WHERE resource=? ORDER BY time
ResourceUpdatesCollection_find(uid) ==
    order_by_time(SelectSeq(ResourceUpdates, LAMBDA x : x.resource = uid))

\* ------------------------------------- relocation: core (from the spec text)
\* a caller names a resource by its uid or by a Resource document it holds
UidArg(uid) == [is_str |-> TRUE, uid |-> uid, doc |-> None]
DocArg(doc) == [is_str |-> FALSE, uid |-> doc.uid, doc |-> doc]

\* the uid a uid-or-document argument stands for
doc_or_uid_to_uid(resource_or_uid) == resource_or_uid.uid

\* time.time() at a commit: epoch seconds, later at every later commit
time_time == Len(ResourceUpdates) + 1

\* update_resource: one ResourceUpdate row is appended and the Resource is
\* written with replace_one (section 4.5)
core_update_resource(old, new, cmd, cmd_kwargs) ==
    [ResourceUpdates |-> ResourceUpdatesCollection_insert_one(
        [resource |-> old.uid, old |-> old, new |-> new,
         time |-> time_time, cmd |-> cmd, cmd_kwargs |-> cmd_kwargs]),
     Resources |-> ResourceCollection_replace_one(new)]

\* get_resource_history: the update rows of the resource, by ascending time
core_get_resource_history(resource_uid) ==
    ResourceUpdatesCollection_find(resource_uid)

\* ------------------------------------------------------------ path helpers
\* [_ for _ in s.split(os.sep) if _]: the non-empty pieces between separators
RECURSIVE split_from(_, _, _)
split_from(s, i, cur) ==
    LET done == IF cur = <<>> THEN <<>> ELSE <<cur>> IN
    IF i > Len(s) THEN done
    ELSE IF s[i] = sep THEN done \o split_from(s, i + 1, <<>>)
    ELSE split_from(s, i + 1, Append(cur, s[i]))

path_segments(s) == split_from(s, 1, <<>>)

\* os.path.join(*inp) for a non-empty list
RECURSIVE os_path_join_all(_)
RECURSIVE safe_join_flat(_)
os_path_join_all(inp) ==
    IF Len(inp) = 1 THEN inp[1]
    ELSE os_path_join(os_path_join_all(SubSeq(inp, 1, Len(inp) - 1)),
                      inp[Len(inp)])

\* the pieces run together with no separator between them
safe_join_flat(inp) ==
    IF inp = <<>> THEN <<>>
    ELSE safe_join_flat(SubSeq(inp, 1, Len(inp) - 1)) \o inp[Len(inp)]

\* safe_join of shift_root
safe_join(inp) == IF inp = <<>> THEN <<>> ELSE os_path_join_all(inp)

\* ---------------------------------------------------------------- FileStore
\* get_history without the test of the schema version
get_history_any_version(resource_uid) ==
    [err |-> OK, ret |-> core_get_resource_history(resource_uid)]

\* get_history(resource_uid): the documents the generator yields
get_history(resource_uid) ==
    IF version = 0 THEN [err |-> "NotImplementedError", ret |-> <<>>]
    ELSE [err |-> OK, ret |-> core_get_resource_history(resource_uid)]

\* shift_root with the two range tests left out, the slices clamped to the
\* lists
shift_root_unchecked(resource_or_uid, shift) ==
    LET r == core_resource_given_uid(doc_or_uid_to_uid(resource_or_uid))
        resource == r.doc
        full_path == os_path_join(resource.root, resource.resource_path)
        abs_path == full_path # <<>> /\ full_path[1] = sep
        root == path_segments(resource.root)
        rpath == path_segments(resource.resource_path)
        clamp(k, n) == IF k < 0 THEN 0 ELSE IF k > n THEN n ELSE k
        eff == IF shift > 0 THEN clamp(shift, Len(rpath))
               ELSE clamp(Len(root) + shift, Len(root))
        new_root == IF shift > 0
                    THEN safe_join(root \o SubSeq(rpath, 1, eff))
                    ELSE safe_join(SubSeq(root, 1, eff))
        new_rpath == IF shift > 0
                     THEN safe_join(SubSeq(rpath, eff + 1, Len(rpath)))
                     ELSE safe_join(SubSeq(root, eff + 1, Len(root)) \o rpath)
        new == [resource EXCEPT
                    !.root = IF abs_path THEN <<sep>> \o new_root
                             ELSE new_root,
                    !.resource_path = new_rpath]
        u == core_update_resource(resource, new, "shift_root",
                                  [shift |-> IF shift > 0 THEN shift
                                             ELSE Len(root) + shift])
    IN  IF version = 0 \/ r.err # OK
        THEN [err |-> "RuntimeError", Resources |-> Resources,
              ResourceUpdates |-> ResourceUpdates]
        ELSE [err |-> OK, Resources |-> u.Resources,
              ResourceUpdates |-> u.ResourceUpdates]

\* shift_root(resource_or_uid, shift): the outcome and the two tables
\* afterwards
shift_root(resource_or_uid, shift) ==
    LET unchanged(e) == [err |-> e, Resources |-> Resources,
                         ResourceUpdates |-> ResourceUpdates]
        r == core_resource_given_uid(doc_or_uid_to_uid(resource_or_uid))
    IN
    IF version = 0 THEN unchanged("NotImplementedError")
    ELSE IF r.err # OK THEN unchanged(r.err)
    ELSE
    LET \* line 560 rebinds `resource` to the document just fetched
        resource == r.doc
        a == core_resource_given_uid(doc_or_uid_to_uid(DocArg(resource)))
    IN
    IF a.err # OK THEN unchanged(a.err)
    ELSE IF a.doc # resource THEN unchanged("RuntimeError")
    ELSE
    LET actual_resource == a.doc
        full_path == os_path_join(actual_resource.root,
                                  actual_resource.resource_path)
        abs_path == full_path # <<>> /\ full_path[1] = sep
        root == path_segments(actual_resource.root)
        rpath == path_segments(actual_resource.resource_path)
    IN
    IF shift > 0 /\ shift > Len(rpath) THEN unchanged("RuntimeError")
    ELSE IF shift <= 0 /\ Len(root) + shift < 0 THEN unchanged("RuntimeError")
    ELSE
    LET \* in the else-branch `shift` is rebound to len(root) + shift
        shift2 == IF shift > 0 THEN shift ELSE Len(root) + shift
        new_root == IF shift > 0
                    THEN safe_join(root \o SubSeq(rpath, 1, shift))
                    ELSE safe_join(SubSeq(root, 1, shift2))
        new_rpath == IF shift > 0
                     THEN safe_join(SubSeq(rpath, shift + 1, Len(rpath)))
                     ELSE safe_join(SubSeq(root, shift2 + 1, Len(root))
                                    \o rpath)
        new == [actual_resource EXCEPT
                    !.root = IF abs_path THEN <<sep>> \o new_root
                             ELSE new_root,
                    !.resource_path = new_rpath]
        u == core_update_resource(actual_resource, new, "shift_root",
                                  [shift |-> shift2])
    IN  [err |-> OK, Resources |-> u.Resources,
         ResourceUpdates |-> u.ResourceUpdates]

\* ------------------------------------------------------------- file system
\* number of leading pieces two lists have in common
RECURSIVE commonprefix_len(_, _)
commonprefix_len(a, b) ==
    IF a = <<>> \/ b = <<>> \/ a[1] # b[1] THEN 0
    ELSE 1 + commonprefix_len(Tail(a), Tail(b))

\* the path relative to the working directory, whatever start is
os_path_relpath_cwd(path, start) == path

\* os.path.relpath(path, start) for two paths that are both absolute or
\* both relative to the working directory
os_path_relpath(path, start) ==
    LET start_list == path_segments(start)
        path_list == path_segments(path)
        i == commonprefix_len(start_list, path_list)
        rel_list == [k \in 1..(Len(start_list) - i) |-> <<".", ".">>] \o
                    SubSeq(path_list, i + 1, Len(path_list))
    IN  IF rel_list = <<>> THEN <<".">> ELSE os_path_join_all(rel_list)

\* a loop that moves the files: the source is gone once it is copied
RECURSIVE copy_loop_move(_, _, _)
copy_loop_move(pairs, i, fs) ==
    IF i > Len(pairs) THEN [err |-> OK, files |-> fs, n |-> Len(pairs)]
    ELSE LET fin == pairs[i][1]
             fout == pairs[i][2]
         IN  IF fin \notin DOMAIN fs
             THEN [err |-> "FileNotFoundError", files |-> fs, n |-> i]
             ELSE IF fin = fout
             THEN [err |-> "SameFileError", files |-> fs, n |-> i]
             ELSE copy_loop_move(pairs, i + 1,
                    Restrict(Put(fs, fout, fs[fin]),
                             (DOMAIN fs \cup {fout}) \ {fin}))

\* the copy loop: shutil.copy2(fin, fout) pair by pair from the i-th on; it
\* stops at the first file that cannot be copied; n is the number of pairs
\* the loop body was entered for
RECURSIVE copy_loop(_, _, _)
copy_loop(pairs, i, fs) ==
    IF i > Len(pairs) THEN [err |-> OK, files |-> fs, n |-> Len(pairs)]
    ELSE LET fin == pairs[i][1]
             fout == pairs[i][2]
         IN  IF fin \notin DOMAIN fs
             THEN [err |-> "FileNotFoundError", files |-> fs, n |-> i]
             ELSE IF fin = fout
             THEN [err |-> "SameFileError", files |-> fs, n |-> i]
             ELSE copy_loop(pairs, i + 1, Put(fs, fout, fs[fin]))

\* the removal loop: os.unlink(f_old) pair by pair from the i-th on
RECURSIVE unlink_loop(_, _, _)
unlink_loop(pairs, i, fs) ==
    IF i > Len(pairs) THEN [err |-> OK, files |-> fs]
    ELSE LET f_old == pairs[i][1] IN
         IF f_old \notin DOMAIN fs
         THEN [err |-> "FileNotFoundError", files |-> fs]
         ELSE unlink_loop(pairs, i + 1, Restrict(fs, DOMAIN fs \ {f_old}))

\* ------------------------------------------------------ files of a resource
\* SELECT * FROM Datums WHERE resource=?  (rows in ascending datum_id)
DatumCollection_find(resource) ==
    LET ids == SelectSeq([i \in 1..(MaxDatums + 1) |-> i],
                         LAMBDA i : /\ i \in DOMAIN Datums
                                    /\ Datums[i].resource = resource)
    IN  [k \in DOMAIN ids |-> Datums[ids[k]]]

\* datum_gen_given_resource: the datum documents of the resource
datum_gen_given_resource(resource) == DatumCollection_find(resource.uid)

\* the digit a datum's kwargs put into the name of its file
index_str(datum_kwargs) == IF datum_kwargs = 0 THEN "0" ELSE "1"

\* handler.get_file_list(datum_kwarg_gen): one file per datum, named by the
\* path the instance was built with and the datum's kwargs
handler_get_file_list(inst, datum_kwarg_gen) ==
    [k \in DOMAIN datum_kwarg_gen |->
        inst.path \o <<index_str(datum_kwarg_gen[k])>>]

\* what get_file_list makes of the handler lookup h
handler_files(h, datum_kwarg_gen) ==
    IF h.err # OK
    THEN [err |-> h.err, ret |-> <<>>, hcache |-> h.hcache,
          rcache |-> h.rcache]
    ELSE IF h.ret.ctor \notin FileHandlers
    THEN [err |-> "AttributeError", ret |-> <<>>, hcache |-> h.hcache,
          rcache |-> h.rcache]
    ELSE [err |-> OK, ret |-> handler_get_file_list(h.ret, datum_kwarg_gen),
          hcache |-> h.hcache, rcache |-> h.rcache]

\* get_file_list(resource, datum_kwarg_gen): the handler of the resource is
\* obtained with get_spec_handler and asked for its files
core_get_file_list(resource, datum_kwarg_gen) ==
    handler_files(get_spec_handler(resource.uid), datum_kwarg_gen)

\* (datum['datum_kwargs'] for datum in datum_gen)
datum_kwargs_of(datum_gen) ==
    [k \in DOMAIN datum_gen |-> datum_gen[k].datum_kwargs]

\* copy_files raised e: nothing is returned; hc, rc and fs are the caches
\* and the file system it leaves, hk the calls made to the caller's hook
copy_files_raised(e, hc, rc, fs, hk) ==
    [err |-> e, ret |-> <<>>, files |-> fs, hcache |-> hc, rcache |-> rc,
     hooked |-> hk]

\* zip(file_list, new_file_list), the new name being the name relative to
\* old_root joined to new_root
copy_pairs(file_list, old_root, new_root) ==
    [k \in DOMAIN file_list |->
        <<file_list[k],
          os_path_join(new_root, os_path_relpath(file_list[k], old_root))>>]

\* a copy_files that calls the caller's hook unwrapped: what the hook
\* raises at the first file ends the call before anything is copied
copy_files_copied_unsafe(fl, pairs, c, file_rename_hook) ==
    IF file_rename_hook = "raises" /\ pairs # <<>>
    THEN copy_files_raised("HookError", fl.hcache, fl.rcache, files,
            <<<<0, Len(pairs), pairs[1][1], pairs[1][2]>>>>)
    ELSE [err |-> c.err, ret |-> IF c.err = OK THEN pairs ELSE <<>>,
          files |-> c.files, hcache |-> fl.hcache, rcache |-> fl.rcache,
          hooked |-> IF file_rename_hook = "None" THEN <<>>
                     ELSE [k \in 1..c.n |->
                            <<k - 1, Len(pairs), pairs[k][1], pairs[k][2]>>]]

\* copy_files once the copy loop has run with outcome c; the hook runs
\* before each copy that is attempted, and what it raises is swallowed by
\* safe_hook
copy_files_copied(fl, pairs, c, file_rename_hook) ==
    LET hooked == IF file_rename_hook = "None" THEN <<>>
                  ELSE [k \in 1..c.n |->
                            <<k - 1, Len(pairs), pairs[k][1], pairs[k][2]>>]
    IN  IF c.err # OK
        THEN copy_files_raised(c.err, fl.hcache, fl.rcache, c.files, hooked)
        ELSE [err |-> OK, ret |-> pairs, files |-> c.files,
              hcache |-> fl.hcache, rcache |-> fl.rcache, hooked |-> hooked]

\* copy_files from the copy loop on
copy_files_copying(fl, pairs, file_rename_hook) ==
    copy_files_copied(fl, pairs, copy_loop(pairs, 1, files), file_rename_hook)

\* copy_files that copies without testing the files against the root
copy_files_listed_unchecked(resource, fl, new_root, file_rename_hook) ==
    LET old_root == IF resource.root = <<>> THEN <<sep>> ELSE resource.root IN
    IF fl.err # OK
    THEN copy_files_raised(fl.err, fl.hcache, fl.rcache, files, <<>>)
    ELSE copy_files_copying(fl, copy_pairs(fl.ret, old_root, new_root),
                            file_rename_hook)

\* copy_files once the file list fl is known: every file is tested against
\* the root, then the files are copied
copy_files_listed(resource, fl, new_root, file_rename_hook) ==
    LET old_root == IF resource.root = <<>> THEN <<sep>> ELSE resource.root IN
    IF fl.err # OK
    THEN copy_files_raised(fl.err, fl.hcache, fl.rcache, files, <<>>)
    ELSE IF \E k \in DOMAIN fl.ret : ~startswith(fl.ret[k], old_root)
    THEN copy_files_raised("RuntimeError", fl.hcache, fl.rcache, files, <<>>)
    ELSE copy_files_copying(fl, copy_pairs(fl.ret, old_root, new_root),
                            file_rename_hook)

\* copy_files once the Resource has been looked up with outcome r
copy_files_found(r, new_root, file_rename_hook) ==
    IF r.err # OK
    THEN copy_files_raised(r.err, _handler_cache, _resource_cache, files,
                           <<>>)
    ELSE copy_files_listed(r.doc,
            core_get_file_list(r.doc,
                datum_kwargs_of(datum_gen_given_resource(r.doc))),
            new_root, file_rename_hook)

\* copy_files(resource_or_uid, new_root, verify, file_rename_hook): the
\* outcome, the pairs returned, the file system and the caches afterwards,
\* and the calls made to the caller's hook
copy_files(resource_or_uid, new_root, verify, file_rename_hook) ==
    IF version = 0 \/ verify
    THEN copy_files_raised("NotImplementedError", _handler_cache,
                           _resource_cache, files, <<>>)
    ELSE copy_files_found(
            core_resource_given_uid(doc_or_uid_to_uid(resource_or_uid)),
            new_root, file_rename_hook)

\* a change_root that returns without clearing the caches
change_root_removed_cached(uid, cf, u, d) ==
    [err |-> d.err, files |-> d.files, Resources |-> u.Resources,
     ResourceUpdates |-> u.ResourceUpdates, hcache |-> cf.hcache,
     rcache |-> cf.rcache]

\* change_root once the originals were removed with outcome d, or kept;
\* the caches are cleared of the resource only when nothing raised
change_root_removed(uid, cf, u, d) ==
    IF d.err # OK
    THEN [err |-> d.err, files |-> d.files, Resources |-> u.Resources,
          ResourceUpdates |-> u.ResourceUpdates, hcache |-> cf.hcache,
          rcache |-> cf.rcache]
    ELSE [err |-> OK, files |-> d.files, Resources |-> u.Resources,
          ResourceUpdates |-> u.ResourceUpdates,
          hcache |-> Restrict(cf.hcache,
                        {k \in DOMAIN cf.hcache : k[1] # uid}),
          rcache |-> Restrict(cf.rcache, DOMAIN cf.rcache \ {uid})]

\* a change_root that keeps the originals whatever remove_origin says
change_root_updated_keep(resource, cf, u, remove_origin) ==
    change_root_removed(resource.uid, cf, u,
                        [err |-> OK, files |-> cf.files])

\* change_root once update_resource has been called with outcome u
change_root_updated(resource, cf, u, remove_origin) ==
    change_root_removed(resource.uid, cf, u,
        IF remove_origin THEN unlink_loop(cf.ret, 1, cf.files)
        ELSE [err |-> OK, files |-> cf.files])

\* change_root once copy_files has run with outcome cf
change_root_copied(resource, cf, new_root, remove_origin, verify) ==
    IF cf.err # OK
    THEN [err |-> cf.err, files |-> cf.files, Resources |-> Resources,
          ResourceUpdates |-> ResourceUpdates, hcache |-> cf.hcache,
          rcache |-> cf.rcache]
    ELSE change_root_updated(resource, cf,
            core_update_resource(resource,
                [resource EXCEPT !.root = new_root], "change_root",
                [remove_origin |-> remove_origin, verify |-> verify,
                 new_root |-> new_root]),
            remove_origin)

\* change_root once the Resource has been looked up with outcome r
change_root_found(r, new_root, remove_origin, verify, hook) ==
    IF r.err # OK
    THEN [err |-> r.err, files |-> files, Resources |-> Resources,
          ResourceUpdates |-> ResourceUpdates, hcache |-> _handler_cache,
          rcache |-> _resource_cache]
    ELSE change_root_copied(r.doc,
            copy_files(DocArg(r.doc), new_root, verify, hook),
            new_root, remove_origin, verify)

\* change_root(resource_or_uid, new_root, remove_origin, verify,
\* file_rename_hook=hook): the outcome, and the file system, the two tables
\* and the caches afterwards
change_root(resource_or_uid, new_root, remove_origin, verify, hook) ==
    change_root_found(
        core_resource_given_uid(doc_or_uid_to_uid(resource_or_uid)),
        new_root, remove_origin, verify, hook)

\* copy_files up to its copy loop: the outcome of the lookups and of the
\* root test, the pairs to copy, and the caches afterwards
copy_files_prepared(resource, fl, new_root) ==
    LET old_root == IF resource.root = <<>> THEN <<sep>> ELSE resource.root IN
    IF version = 0
    THEN [err |-> "NotImplementedError", pairs |-> <<>>,
          hcache |-> _handler_cache, rcache |-> _resource_cache]
    ELSE IF fl.err # OK
    THEN [err |-> fl.err, pairs |-> <<>>, hcache |-> fl.hcache,
          rcache |-> fl.rcache]
    ELSE IF \E k \in DOMAIN fl.ret : ~startswith(fl.ret[k], old_root)
    THEN [err |-> "RuntimeError", pairs |-> <<>>, hcache |-> fl.hcache,
          rcache |-> fl.rcache]
    ELSE [err |-> OK, pairs |-> copy_pairs(fl.ret, old_root, new_root),
          hcache |-> fl.hcache, rcache |-> fl.rcache]

\* a copy that removes its source
shutil_move(fin, fout, fs) ==
    IF fin \notin DOMAIN fs THEN [err |-> "FileNotFoundError", files |-> fs]
    ELSE IF fin = fout THEN [err |-> "SameFileError", files |-> fs]
    ELSE [err |-> OK,
          files |-> Restrict(Put(fs, fout, fs[fin]),
                             (DOMAIN fs \cup {fout}) \ {fin})]

\* shutil.copy2(fin, fout): one pass of the copy loop
shutil_copy2(fin, fout, fs) ==
    IF fin \notin DOMAIN fs THEN [err |-> "FileNotFoundError", files |-> fs]
    ELSE IF fin = fout THEN [err |-> "SameFileError", files |-> fs]
    ELSE [err |-> OK, files |-> Put(fs, fout, fs[fin])]

\* os.unlink(f_old): one pass of the removal loop
os_unlink(f_old, fs) ==
    IF f_old \notin DOMAIN fs
    THEN [err |-> "FileNotFoundError", files |-> fs]
    ELSE [err |-> OK, files |-> Restrict(fs, DOMAIN fs \ {f_old})]

\* resource_given_eid(eid): the Resource document of a datum
resource_given_eid(eid) ==
    IF version = 0
    THEN [err |-> "NotImplementedError", ret |-> None,
          rcache |-> _resource_cache]
    ELSE LET datum == DatumCollection_find_one(eid) IN
         IF datum = None
         THEN [err |-> "DatumNotFound", ret |-> None,
               rcache |-> _resource_cache]
         ELSE LET c == resource_cache_getitem(datum.resource) IN
              [err |-> c.err, ret |-> c.doc, rcache |-> c.cache]

\* --------------------------------------------------------------------- Init
\* no change_root call is in progress
Idle == [pc |-> "idle"]

\* the collections that carry a version sentinel
versioned_collection == {"resource", "datum"}

\* the callers that may share one FileStore
Callers == {1, 2}

\* no caller has a call in progress
NoCallers ==
    /\ callers = [c \in Callers |-> Idle]
    /\ datum_rows = <<>>
    /\ unique_index = FALSE

\* nothing of the document backend has been opened yet
Disconnected ==
    /\ __db = "None"
    /\ __res_col = "None"
    /\ __datum_col = "None"
    /\ __res_update_col = "None"
    /\ __conn = "None"

Init ==
    /\ Resources = EmptyMap
    /\ Datums = EmptyMap
    /\ dicts = [d \in DictIds |-> EmptyReg]
    /\ handler_reg = <<0>>
    /\ contexts = <<>>
    /\ root_map = EmptyMap
    /\ _datum_cache = EmptyMap
    /\ _handler_cache = EmptyMap
    /\ _resource_cache = EmptyMap
    /\ last = [op |-> "init", err |-> OK]
    /\ ResourceUpdates = <<>>
    /\ files = EmptyMap
    /\ version = 1
    /\ call = Idle
    /\ sentinel = [c \in versioned_collection |-> 1]
    /\ Disconnected
    /\ config = "db1"
    /\ NoCallers

\* a store of schema version 0 or 1 opened on a database that holds one
\* resource with one datum, whose file is on disk, and constructed with a
\* handler registry that binds the resource's spec; a version 0 Resource
\* has no root
InitStored ==
    /\ version \in {0, 1}
    /\ \E spec \in Specs, rpath \in MovePaths, root \in MoveRoots :
        LET doc == [uid |-> 1, spec |-> spec, resource_path |-> rpath,
                    root |-> IF version = 0 THEN <<>> ELSE root,
                    resource_kwargs |-> 0]
            f == os_path_join(doc.root, doc.resource_path) \o <<"0">>
        IN  /\ Resources = [u \in {1} |-> doc]
            /\ files = [x \in {f} |-> f]
            /\ dicts = [d \in DictIds |->
                            IF d = 0
                            THEN [s \in Specs |->
                                    IF s = spec THEN ReaderWithFSHandler
                                    ELSE None]
                            ELSE EmptyReg]
    /\ Datums = [e \in {1} |->
                    [datum_id |-> 1, resource |-> 1, datum_kwargs |-> 0]]
    /\ handler_reg = <<0>>
    /\ contexts = <<>>
    /\ root_map = EmptyMap
    /\ _datum_cache = EmptyMap
    /\ _handler_cache = EmptyMap
    /\ _resource_cache = EmptyMap
    /\ last = [op |-> "init", err |-> OK]
    /\ ResourceUpdates = <<>>
    /\ call = Idle
    /\ sentinel = [c \in versioned_collection |-> version]
    /\ Disconnected
    /\ config = "db1"
    /\ NoCallers

\* ------------------------------------------------------------------ actions
\* `last` records which call the step made and what it raised; the arguments
\* of the call are the parameters of the step
\* insert_resource while fewer than `cap` resources are stored
insert_resource_capped(spec, rpath, kw, root, cap) ==
    LET uid == Cardinality(DOMAIN Resources) + 1 IN
    /\ uid <= cap
    /\ Resources' = core_insert_resource(uid, spec, rpath, kw, root)
    /\ last' = [op |-> "insert_resource", err |-> OK]
    /\ UNCHANGED <<relocation_vars, call, backend_vars, caller_vars>>
    /\ UNCHANGED <<Datums, dicts, handler_reg, contexts, root_map,
                   _datum_cache, _handler_cache, _resource_cache>>

insert_resource_step(spec, rpath, kw, root) ==
    LET uid == Cardinality(DOMAIN Resources) + 1 IN
    /\ uid \in UIDs
    /\ Resources' = core_insert_resource(uid, spec, rpath, kw, root)
    /\ last' = [op |-> "insert_resource", err |-> OK]
    /\ UNCHANGED <<relocation_vars, call, backend_vars, caller_vars>>
    /\ UNCHANGED <<Datums, dicts, handler_reg, contexts, root_map,
                   _datum_cache, _handler_cache, _resource_cache>>

InsertResource ==
    \E spec \in Specs, rpath \in ResourcePaths, kw \in ResourceKwargs,
       root \in Roots : insert_resource_step(spec, rpath, kw, root)

\* insert_datum while fewer than `cap` datums are stored
insert_datum_capped(resource, datum_id, kw, cap) ==
    LET r == core_insert_datum(resource, datum_id, kw) IN
    /\ datum_id \in DOMAIN Datums \/ Cardinality(DOMAIN Datums) < cap
    /\ Datums' = r.table
    /\ last' = [op |-> "insert_datum", err |-> r.err]
    /\ UNCHANGED <<relocation_vars, call, backend_vars, caller_vars>>
    /\ UNCHANGED <<Resources, dicts, handler_reg, contexts, root_map,
                   _datum_cache, _handler_cache, _resource_cache>>

insert_datum_step(resource, datum_id, kw) ==
    LET r == core_insert_datum(resource, datum_id, kw) IN
    /\ datum_id \in DOMAIN Datums \/ Cardinality(DOMAIN Datums) < MaxDatums
    /\ Datums' = r.table
    /\ last' = [op |-> "insert_datum", err |-> r.err]
    /\ UNCHANGED <<relocation_vars, call, backend_vars, caller_vars>>
    /\ UNCHANGED <<Resources, dicts, handler_reg, contexts, root_map,
                   _datum_cache, _handler_cache, _resource_cache>>

InsertDatum ==
    \E resource \in UIDs, datum_id \in DatumIds, kw \in DatumKwargs :
        insert_datum_step(resource, datum_id, kw)

retrieve_step(eid) ==
    LET r == retrieve(eid) IN
    /\ _datum_cache' = r.dcache
    /\ _handler_cache' = r.hcache
    /\ _resource_cache' = r.rcache
    /\ last' = [op |-> "retrieve", err |-> r.err]
    /\ UNCHANGED <<relocation_vars, call, backend_vars, caller_vars>>
    /\ UNCHANGED <<Resources, Datums, dicts, handler_reg, contexts, root_map>>

Retrieve == \E eid \in DatumIds : retrieve_step(eid)

bulk_insert_datum_step(resource, datum_ids, datum_kwarg_list) ==
    LET r == core_bulk_insert_datum(resource, datum_ids, datum_kwarg_list) IN
    /\ Datums' = r.table
    /\ last' = [op |-> "bulk_insert_datum", err |-> r.err]
    /\ UNCHANGED <<relocation_vars, call, backend_vars, caller_vars>>
    /\ UNCHANGED <<Resources, dicts, handler_reg, contexts, root_map,
                   _datum_cache, _handler_cache, _resource_cache>>

BulkInsertDatum ==
    \E resource \in UIDs2, n \in 1..2 :
        \E datum_ids \in [1..n -> DatumIds],
           datum_kwarg_list \in [1..n -> DatumKwargs] :
            bulk_insert_datum_step(resource, datum_ids, datum_kwarg_list)

get_spec_handler_step(uid) ==
    LET r == get_spec_handler(uid) IN
    /\ _handler_cache' = r.hcache
    /\ _resource_cache' = r.rcache
    /\ last' = [op |-> "get_spec_handler", err |-> r.err]
    /\ UNCHANGED <<relocation_vars, call, backend_vars, caller_vars>>
    /\ UNCHANGED <<Resources, Datums, dicts, handler_reg, contexts,
                   root_map, _datum_cache>>

GetSpecHandler == \E uid \in UIDs : get_spec_handler_step(uid)

register_handler_step(key, handler, overwrite) ==
    LET r == register_handler(key, handler, overwrite) IN
    /\ dicts' = r.dicts
    /\ _handler_cache' = r.hcache
    /\ last' = [op |-> "register_handler", err |-> r.err]
    /\ UNCHANGED <<relocation_vars, call, backend_vars, caller_vars>>
    /\ UNCHANGED <<Resources, Datums, handler_reg, contexts, root_map,
                   _datum_cache, _resource_cache>>

RegisterHandler ==
    \E key \in Specs, handler \in Handlers, overwrite \in BOOLEAN :
        register_handler_step(key, handler, overwrite)

deregister_handler_step(key) ==
    LET r == deregister_handler(key) IN
    /\ dicts' = r.dicts
    /\ _handler_cache' = r.hcache
    /\ last' = [op |-> "deregister_handler", err |-> OK]
    /\ UNCHANGED <<relocation_vars, call, backend_vars, caller_vars>>
    /\ UNCHANGED <<Resources, Datums, handler_reg, contexts, root_map,
                   _datum_cache, _resource_cache>>

DeregisterHandler == \E key \in Specs : deregister_handler_step(key)

\* entering `with fs.handler_context(temp_handlers)`
handler_context_enter_step(temp_handlers) ==
    /\ Len(contexts) < MaxDepth
    /\ LET d == FreshDict IN
        /\ dicts' = [dicts EXCEPT ![d] = temp_handlers]
        /\ handler_reg' = new_child(handler_reg, d)
        /\ contexts' = Append(contexts,
                [stash |-> handler_reg, temp_handlers |-> d,
                 entry |-> Snapshot(handler_reg)])
    /\ last' = [op |-> "handler_context", err |-> OK]
    /\ UNCHANGED <<relocation_vars, call, backend_vars, caller_vars>>
    /\ UNCHANGED <<Resources, Datums, root_map, _datum_cache,
                   _handler_cache, _resource_cache>>

HandlerContextEnter ==
    \E temp_handlers \in TempHandlers :
        handler_context_enter_step(temp_handlers)

\* leaving the innermost block, normally or because the last call raised
\* (the error then propagates out of the block)
HandlerContextExit ==
    /\ contexts # <<>>
    /\ LET c == contexts[Len(contexts)]
           r == handler_context_exit(c.stash)
           rest == SubSeq(contexts, 1, Len(contexts) - 1)
           still == {r.reg[i] : i \in DOMAIN r.reg} \cup
                    UNION {{rest[k].stash[i] : i \in DOMAIN rest[k].stash} :
                           k \in DOMAIN rest}
       IN
        /\ handler_reg' = r.reg
        /\ _handler_cache' = r.hcache
        /\ contexts' = rest
        /\ dicts' = IF r.popped \in still THEN dicts
                    ELSE [dicts EXCEPT ![r.popped] = EmptyReg]
    /\ last' = [op |-> "handler_context_exit", err |-> last.err]
    /\ UNCHANGED <<relocation_vars, call, backend_vars, caller_vars>>
    /\ UNCHANGED <<Resources, Datums, root_map, _datum_cache,
                   _resource_cache>>

set_root_map_step(m) ==
    /\ root_map' = m
    /\ last' = [op |-> "set_root_map", err |-> OK]
    /\ UNCHANGED <<relocation_vars, call, backend_vars, caller_vars>>
    /\ UNCHANGED <<Resources, Datums, dicts, handler_reg, contexts,
                   _datum_cache, _handler_cache, _resource_cache>>

SetRootMap == \E m \in RootMaps : set_root_map_step(m)

\* ------------------------------------------------------ relocation actions
InsertResourceShift ==
    \E spec \in Specs, rpath \in ShiftPaths, kw \in ResourceKwargs,
       root \in ShiftRoots : insert_resource_step(spec, rpath, kw, root)

shift_root_step(resource_or_uid, shift) ==
    LET r == shift_root(resource_or_uid, shift) IN
    /\ Len(ResourceUpdates) < MaxUpdates
    /\ Resources' = r.Resources
    /\ ResourceUpdates' = r.ResourceUpdates
    /\ last' = [op |-> "shift_root", err |-> r.err]
    /\ UNCHANGED <<call, backend_vars, caller_vars>>
    /\ UNCHANGED <<Datums, dicts, handler_reg, contexts, root_map,
                   _datum_cache, _handler_cache, _resource_cache,
                   files, version>>

\* the caller names the resource by uid
ShiftRoot ==
    \E uid \in UIDs, shift \in Shifts : shift_root_step(UidArg(uid), shift)

\* the documents a caller may hold for a resource: the stored one, or one
\* it obtained before an earlier relocation
Snapshots(uid) ==
    {Resources[uid]} \cup
    {ResourceUpdates[i].old : i \in {j \in DOMAIN ResourceUpdates :
                                        ResourceUpdates[j].resource = uid}}

\* the caller hands over a Resource document
ShiftRootDoc ==
    \E uid \in DOMAIN Resources, shift \in Shifts :
        \E doc \in Snapshots(uid) : shift_root_step(DocArg(doc), shift)

get_history_step(resource_uid) ==
    /\ last' = [op |-> "get_history", err |-> get_history(resource_uid).err]
    /\ UNCHANGED <<call, backend_vars, caller_vars>>
    /\ UNCHANGED <<Resources, Datums, dicts, handler_reg, contexts, root_map,
                   _datum_cache, _handler_cache, _resource_cache,
                   ResourceUpdates, files, version>>

GetHistory == \E uid \in UIDs : get_history_step(uid)

\* two resources, so that the update log holds rows of more than one
InsertResourceTwo ==
    \E spec \in Specs, rpath \in ResourcePaths, kw \in ResourceKwargs,
       root \in Roots :
        insert_resource_capped(spec, rpath, kw, root, MaxResources + 1)

ShiftRootTwo ==
    \E uid \in UIDs2, shift \in Shifts : shift_root_step(UidArg(uid), shift)

GetHistoryTwo == \E uid \in UIDs2 : get_history_step(uid)

\* ------------------------------------------------- file relocation actions
\* the path root and resource_path of a Resource denote when joined
JoinedPath(res) == os_path_join(res.root, res.resource_path)

InsertResourceMove ==
    \E spec \in Specs, rpath \in CopyPaths, kw \in ResourceKwargs,
       root \in CopyRoots :
        insert_resource_capped(spec, rpath, kw, root, MaxResources)

\* up to two datums with fresh ids, so that two datums may name the same
\* file
InsertDatumMove ==
    \E resource \in UIDs, kw \in DatumKwargs :
        insert_datum_capped(resource, Cardinality(DOMAIN Datums) + 1, kw,
                            MaxDatums + 1)

RegisterFileHandler ==
    \E key \in Specs, overwrite \in BOOLEAN :
        register_handler_step(key, ReaderWithFSHandler, overwrite)

\* the files of the stored resources, at the location the stored root and
\* resource_path give: one per datum
ResourceFiles ==
    {JoinedPath(Resources[Datums[d].resource])
        \o <<index_str(Datums[d].datum_kwargs)>> : d \in DOMAIN Datums}

\* the instrument writes a file of a resource, before the resource is ever
\* relocated; the content is named after the place it is written to
write_file_step(path) ==
    /\ ResourceUpdates = <<>>
    /\ path \notin DOMAIN files
    /\ files' = Put(files, path, path)
    /\ last' = [op |-> "write_file", err |-> OK]
    /\ UNCHANGED <<call, backend_vars, caller_vars>>
    /\ UNCHANGED <<Resources, Datums, dicts, handler_reg, contexts, root_map,
                   _datum_cache, _handler_cache, _resource_cache,
                   ResourceUpdates, version>>

WriteFile == \E path \in ResourceFiles : write_file_step(path)

copy_files_step(resource_or_uid, new_root, verify, file_rename_hook) ==
    LET r == copy_files(resource_or_uid, new_root, verify,
                        file_rename_hook) IN
    /\ files' = r.files
    /\ _handler_cache' = r.hcache
    /\ _resource_cache' = r.rcache
    /\ last' = [op |-> "copy_files", err |-> r.err]
    /\ UNCHANGED <<call, backend_vars, caller_vars>>
    /\ UNCHANGED <<Resources, Datums, dicts, handler_reg, contexts, root_map,
                   _datum_cache, ResourceUpdates, version>>

CopyFiles ==
    \E uid \in UIDs, new_root \in NewRoots, verify \in BOOLEAN,
       file_rename_hook \in Hooks :
        copy_files_step(UidArg(uid), new_root, verify, file_rename_hook)

change_root_step(resource_or_uid, new_root, remove_origin, verify, hook) ==
    LET r == change_root(resource_or_uid, new_root, remove_origin, verify,
                         hook) IN
    /\ Len(ResourceUpdates) < MaxUpdates
    /\ files' = r.files
    /\ Resources' = r.Resources
    /\ ResourceUpdates' = r.ResourceUpdates
    /\ _handler_cache' = r.hcache
    /\ _resource_cache' = r.rcache
    /\ last' = [op |-> "change_root", err |-> r.err]
    /\ UNCHANGED <<call, backend_vars, caller_vars>>
    /\ UNCHANGED <<Datums, dicts, handler_reg, contexts, root_map,
                   _datum_cache, version>>

ChangeRoot ==
    \E uid \in UIDs, new_root \in NewRoots, remove_origin \in BOOLEAN,
       verify \in BOOLEAN, hook \in Hooks :
        change_root_step(UidArg(uid), new_root, remove_origin, verify, hook)

resource_given_eid_step(eid) ==
    LET r == resource_given_eid(eid) IN
    /\ _resource_cache' = r.rcache
    /\ last' = [op |-> "resource_given_eid", err |-> r.err]
    /\ UNCHANGED <<call, backend_vars, caller_vars>>
    /\ UNCHANGED <<Resources, Datums, dicts, handler_reg, contexts, root_map,
                   _datum_cache, _handler_cache, ResourceUpdates, files,
                   version>>

ResourceGivenEid == \E eid \in DatumIds : resource_given_eid_step(eid)

\* ------------------------------------------- change_root, statement by
\* statement: the call is entered, then the copy loop runs pass by pass,
\* then update_resource, then the removal loop pass by pass, then the caches
\* are cleared; the process may die between any two of these
change_root_ends(err) ==
    /\ call' = Idle
    /\ last' = [op |-> "change_root", err |-> err]

\* the statements up to the copy loop, p being what copy_files found
change_root_listed(resource, p, new_root, remove_origin) ==
    /\ _handler_cache' = p.hcache
    /\ _resource_cache' = p.rcache
    /\ IF p.err # OK
       THEN change_root_ends(p.err)
       ELSE /\ call' = [pc |-> "copy", resource |-> resource,
                        new_root |-> new_root,
                        remove_origin |-> remove_origin,
                        pairs |-> p.pairs, i |-> 1]
            /\ last' = [op |-> "change_root", err |-> "running"]
    /\ UNCHANGED <<Resources, Datums, dicts, handler_reg, contexts, root_map,
                   _datum_cache, ResourceUpdates, files, version,
                   backend_vars, caller_vars>>

change_root_enter(r, new_root, remove_origin) ==
    /\ call = Idle
    /\ Len(ResourceUpdates) < MaxUpdates
    /\ IF r.err # OK
       THEN /\ change_root_ends(r.err)
            /\ UNCHANGED <<Resources, Datums, dicts, handler_reg, contexts,
                           root_map, _datum_cache, _handler_cache,
                           _resource_cache, ResourceUpdates, files, version,
                           backend_vars, caller_vars>>
       ELSE change_root_listed(r.doc,
                copy_files_prepared(r.doc,
                    core_get_file_list(r.doc,
                        datum_kwargs_of(datum_gen_given_resource(r.doc))),
                    new_root),
                new_root, remove_origin)

ChangeRootEnter ==
    \E uid \in UIDs, new_root \in NewRoots, remove_origin \in BOOLEAN :
        change_root_enter(core_resource_given_uid(uid), new_root,
                          remove_origin)

\* one pass of the copy loop, c being what shutil.copy2 did
change_root_copied_one(c) ==
    /\ files' = c.files
    /\ IF c.err # OK
       THEN change_root_ends(c.err)
       ELSE /\ call' = [call EXCEPT !.i = call.i + 1]
            /\ UNCHANGED last
    /\ UNCHANGED <<Resources, Datums, dicts, handler_reg, contexts, root_map,
                   _datum_cache, _handler_cache, _resource_cache,
                   ResourceUpdates, version, backend_vars, caller_vars>>

ChangeRootCopy ==
    /\ call.pc = "copy"
    /\ call.i <= Len(call.pairs)
    /\ change_root_copied_one(
            shutil_copy2(call.pairs[call.i][1], call.pairs[call.i][2], files))

\* update_resource, u being the two tables it leaves
change_root_update(u) ==
    /\ Resources' = u.Resources
    /\ ResourceUpdates' = u.ResourceUpdates
    /\ call' = [call EXCEPT !.pc = "unlink",
                            !.i = IF call.remove_origin THEN 1
                                  ELSE Len(call.pairs) + 1]
    /\ UNCHANGED <<Datums, dicts, handler_reg, contexts, root_map,
                   _datum_cache, _handler_cache, _resource_cache, last, files,
                   version, backend_vars, caller_vars>>

ChangeRootUpdate ==
    /\ call.pc = "copy"
    /\ call.i > Len(call.pairs)
    /\ change_root_update(
            core_update_resource(call.resource,
                [call.resource EXCEPT !.root = call.new_root], "change_root",
                [remove_origin |-> call.remove_origin, verify |-> FALSE,
                 new_root |-> call.new_root]))

\* update_resource raises: the backend refuses the write
ChangeRootUpdateFails ==
    /\ call.pc = "copy"
    /\ call.i > Len(call.pairs)
    /\ change_root_ends("OperationalError")
    /\ UNCHANGED <<Resources, Datums, dicts, handler_reg, contexts, root_map,
                   _datum_cache, _handler_cache, _resource_cache,
                   ResourceUpdates, files, version, backend_vars, caller_vars>>

\* one pass of the removal loop, d being what os.unlink did
change_root_unlinked_one(d) ==
    /\ files' = d.files
    /\ IF d.err # OK
       THEN change_root_ends(d.err)
       ELSE /\ call' = [call EXCEPT !.i = call.i + 1]
            /\ UNCHANGED last
    /\ UNCHANGED <<Resources, Datums, dicts, handler_reg, contexts, root_map,
                   _datum_cache, _handler_cache, _resource_cache,
                   ResourceUpdates, version, backend_vars, caller_vars>>

ChangeRootUnlink ==
    /\ call.pc = "unlink"
    /\ call.i <= Len(call.pairs)
    /\ change_root_unlinked_one(os_unlink(call.pairs[call.i][1], files))

\* the caches are cleared of the resource and the call returns
ChangeRootNuke ==
    /\ call.pc = "unlink"
    /\ call.i > Len(call.pairs)
    /\ _resource_cache' = Restrict(_resource_cache,
            DOMAIN _resource_cache \ {call.resource.uid})
    /\ _handler_cache' = Restrict(_handler_cache,
            {k \in DOMAIN _handler_cache : k[1] # call.resource.uid})
    /\ change_root_ends(OK)
    /\ UNCHANGED <<Resources, Datums, dicts, handler_reg, contexts, root_map,
                   _datum_cache, ResourceUpdates, files, version,
                   backend_vars, caller_vars>>

\* the process dies in the middle of the call; the process started next
\* has the same registry and empty caches
ChangeRootCrash ==
    /\ call.pc # "idle"
    /\ change_root_ends("crash")
    /\ _datum_cache' = EmptyMap
    /\ _handler_cache' = EmptyMap
    /\ _resource_cache' = EmptyMap
    /\ UNCHANGED <<Resources, Datums, dicts, handler_reg, contexts, root_map,
                   ResourceUpdates, files, version, backend_vars, caller_vars>>

\* ------------------------------------------ relational backend, BLOB columns
\* Python values a mapping may hold
PyInt(n) == [t |-> "int", v |-> n]
PyStr(x) == [t |-> "str", v |-> x]
PyList(items) == [t |-> "list", items |-> items]
PyTuple(items) == [t |-> "tuple", items |-> items]
\* a dict as the sequence of its (key, value) pairs
PyDict(pairs) == [t |-> "dict", items |-> pairs]

\* JSON texts, by their syntax tree
JsonNumber(n) == [j |-> "number", v |-> n]
JsonString(x) == [j |-> "string", v |-> x]
JsonArray(items) == [j |-> "array", items |-> items]
JsonObject(members) == [j |-> "object", items |-> members]

\* the name json.dumps writes for a dict key: str(key) for an int key
json_key(k) == IF k.t = "int" THEN JsonString(ToString(k.v))
               ELSE JsonString(k.v)

\* json.dumps(obj): lists and tuples both become arrays, every dict key
\* becomes a string
RECURSIVE json_dumps(_)
json_dumps(obj) ==
    CASE obj.t = "int" -> JsonNumber(obj.v)
      [] obj.t = "str" -> JsonString(obj.v)
      [] obj.t \in {"list", "tuple"} ->
            JsonArray([k \in DOMAIN obj.items |-> json_dumps(obj.items[k])])
      [] obj.t = "dict" ->
            JsonObject([k \in DOMAIN obj.items |->
                <<json_key(obj.items[k][1]), json_dumps(obj.items[k][2])>>])

\* json.loads(s): arrays become lists, objects become dicts with str keys
RECURSIVE json_loads(_)
json_loads(doc) ==
    CASE doc.j = "number" -> PyInt(doc.v)
      [] doc.j = "string" -> PyStr(doc.v)
      [] doc.j = "array" ->
            PyList([k \in DOMAIN doc.items |-> json_loads(doc.items[k])])
      [] doc.j = "object" ->
            PyDict([k \in DOMAIN doc.items |->
                <<PyStr(doc.items[k][1].v), json_loads(doc.items[k][2])>>])

\* shadow_with_json(d, keys): d with the listed fields replaced by their
\* JSON text
shadow_with_json(d, keys) ==
    [f \in DOMAIN d |-> IF f \in keys THEN json_dumps(d[f]) ELSE d[f]]

\* dict(row) with the listed columns parsed
loads_columns(row, keys) ==
    [f \in DOMAIN row |-> IF f \in keys THEN json_loads(row[f]) ELSE row[f]]

\* the values of a mapping-valued field: keyword mappings with a number, a
\* list, a tuple, a nested mapping, and a nested mapping keyed by a number
Kwargs ==
    {PyDict(<<>>),
     PyDict(<<<<PyStr("n"), PyInt(1)>>>>),
     PyDict(<<<<PyStr("shape"), PyList(<<PyInt(5), PyInt(5)>>)>>>>),
     PyDict(<<<<PyStr("shape"), PyTuple(<<PyInt(5), PyInt(5)>>)>>>>),
     PyDict(<<<<PyStr("m"), PyDict(<<<<PyStr("k"), PyInt(0)>>>>)>>>>),
     PyDict(<<<<PyStr("m"), PyDict(<<<<PyInt(0), PyInt(0)>>>>)>>>>)}

\* a Resource document as the dict handed to json.dumps
resource_dict(doc) ==
    PyDict(<<<<PyStr("uid"), PyInt(doc.uid)>>,
             <<PyStr("spec"), PyStr(doc.spec)>>,
             <<PyStr("resource_path"), PyStr(doc.resource_path)>>,
             <<PyStr("root"), PyStr(doc.root)>>,
             <<PyStr("resource_kwargs"), doc.resource_kwargs>>>>)

\* ResourceCollection.insert_one: the Resources table afterwards
sqlite_ResourceCollection_insert_one(resource) ==
    Put(Resources, resource.uid,
        shadow_with_json(resource, {"resource_kwargs"}))

\* ResourceCollection.find_one
sqlite_ResourceCollection_find_one(uid) ==
    IF uid \notin DOMAIN Resources THEN None
    ELSE loads_columns(Resources[uid], {"resource_kwargs"})

\* DatumCollection.insert_one: the Datums table afterwards
sqlite_DatumCollection_insert_one(datum) ==
    Put(Datums, datum.datum_id, shadow_with_json(datum, {"datum_kwargs"}))

\* DatumCollection.find_one
sqlite_DatumCollection_find_one(datum_id) ==
    IF datum_id \notin DOMAIN Datums THEN None
    ELSE loads_columns(Datums[datum_id], {"datum_kwargs"})

\* DatumCollection.find: the datums of a resource
sqlite_DatumCollection_find(resource) ==
    LET ids == SelectSeq([k \in 1..(MaxDatums + 1) |-> k],
                         LAMBDA k : /\ k \in DOMAIN Datums
                                    /\ Datums[k].resource = resource)
    IN  [k \in DOMAIN ids |->
            loads_columns(Datums[ids[k]], {"datum_kwargs"})]

_JSONIFY_KEYS == {"old", "new", "cmd_kwargs"}

\* ResourceUpdatesCollection.insert_one: the table afterwards
sqlite_ResourceUpdatesCollection_insert_one(log_object) ==
    Append(ResourceUpdates, shadow_with_json(log_object, _JSONIFY_KEYS))

\* ResourceUpdatesCollection.find: the rows of a resource, in time order
sqlite_ResourceUpdatesCollection_find(resource) ==
    LET rows == SelectSeq(ResourceUpdates,
                          LAMBDA row : row.resource = resource)
    IN  [k \in DOMAIN rows |-> loads_columns(rows[k], _JSONIFY_KEYS)]

sqlite_unchanged ==
    UNCHANGED <<dicts, handler_reg, contexts, root_map, _datum_cache,
                _handler_cache, _resource_cache, files, version, call,
                backend_vars, caller_vars>>

sqlite_insert_resource_step(uid, kw) ==
    /\ uid \notin DOMAIN Resources
    /\ Resources' = sqlite_ResourceCollection_insert_one(
            [uid |-> uid, spec |-> "syn-mod", resource_path |-> <<"f">>,
             root |-> <<>>, resource_kwargs |-> kw])
    /\ last' = [op |-> "ResourceCollection.insert_one", err |-> OK]
    /\ UNCHANGED <<Datums, ResourceUpdates>>
    /\ sqlite_unchanged

SqliteInsertResource ==
    \E uid \in UIDs, kw \in Kwargs : sqlite_insert_resource_step(uid, kw)

sqlite_insert_datum_step(datum_id, resource, kw) ==
    /\ datum_id \notin DOMAIN Datums
    /\ Datums' = sqlite_DatumCollection_insert_one(
            [datum_id |-> datum_id, resource |-> resource,
             datum_kwargs |-> kw])
    /\ last' = [op |-> "DatumCollection.insert_one", err |-> OK]
    /\ UNCHANGED <<Resources, ResourceUpdates>>
    /\ sqlite_unchanged

SqliteInsertDatum ==
    \E datum_id \in DatumIds, kw \in Kwargs :
        \E resource \in DOMAIN Resources :
            sqlite_insert_datum_step(datum_id, resource, kw)

\* an update record whose old document is the Resource as the caller
\* holds it, with resource_kwargs `was`, and whose new document carries
\* resource_kwargs `kw`
sqlite_insert_update_step(uid, was, kw, cmd_kwargs) ==
    LET old == [uid |-> uid, spec |-> "syn-mod", resource_path |-> <<"f">>,
                root |-> <<>>, resource_kwargs |-> was]
        new == [old EXCEPT !.resource_kwargs = kw]
    IN  /\ ResourceUpdates = <<>>
        /\ ResourceUpdates' = sqlite_ResourceUpdatesCollection_insert_one(
                [resource |-> uid, old |-> resource_dict(old),
                 new |-> resource_dict(new), time |-> 1,
                 cmd |-> "update", cmd_kwargs |-> cmd_kwargs])
        /\ last' = [op |-> "ResourceUpdatesCollection.insert_one",
                    err |-> OK]
        /\ UNCHANGED <<Resources, Datums>>
        /\ sqlite_unchanged

SqliteInsertUpdate ==
    \E was \in Kwargs, kw \in Kwargs, cmd_kwargs \in Kwargs :
        \E uid \in DOMAIN Resources :
            sqlite_insert_update_step(uid, was, kw, cmd_kwargs)

\* --------------------------------------------- document backend handles
\* the versions a sentinel record or a FileStore may carry
SchemaVersions == {0, 1, 2}

\* the sentinel collections a database may hold: one record per versioned
\* collection, or none
Sentinels ==
    UNION {[cols -> SchemaVersions] : cols \in SUBSET versioned_collection}

\* a FileStore constructed on a database, nothing opened yet
InitBackend ==
    /\ Resources = EmptyMap
    /\ Datums = EmptyMap
    /\ dicts = [d \in DictIds |-> EmptyReg]
    /\ handler_reg = <<0>>
    /\ contexts = <<>>
    /\ root_map = EmptyMap
    /\ _datum_cache = EmptyMap
    /\ _handler_cache = EmptyMap
    /\ _resource_cache = EmptyMap
    /\ last = [op |-> "init", err |-> OK]
    /\ ResourceUpdates = <<>>
    /\ files = EmptyMap
    /\ version \in SchemaVersions
    /\ call = Idle
    /\ sentinel \in Sentinels
    /\ Disconnected
    /\ config = "db1"
    /\ NoCallers

\* the sentinel loop of _db: the first versioned collection, in the order
\* 'resource', 'datum', whose sentinel is missing or differs raises
sentinel_check(cols) ==
    IF \E k \in DOMAIN cols :
            cols[k] \notin DOMAIN sentinel \/ sentinel[cols[k]] # version
    THEN "RuntimeError"
    ELSE OK

\* the _db property: the handle is stored before the sentinels are tested
_db ==
    IF __db # "None"
    THEN [err |-> OK, db |-> __db, conn |-> __conn]
    ELSE IF version > 0 /\ sentinel_check(<<"resource", "datum">>) # OK
    THEN [err |-> "RuntimeError", db |-> "database", conn |-> "MongoClient"]
    ELSE [err |-> OK, db |-> "database", conn |-> "MongoClient"]

\* a collection property reading handle `col`: the handle afterwards, the
\* database handle and the connection as _db left them
collection_property(col, name) ==
    IF col # "None"
    THEN [err |-> OK, col |-> col, db |-> __db, conn |-> __conn]
    ELSE IF _db.err # OK
    THEN [err |-> _db.err, col |-> "None", db |-> _db.db, conn |-> _db.conn]
    ELSE [err |-> OK, col |-> name, db |-> _db.db, conn |-> _db.conn]

backend_unchanged ==
    UNCHANGED <<Resources, Datums, dicts, handler_reg, contexts, root_map,
                _datum_cache, _handler_cache, _resource_cache,
                ResourceUpdates, files, version, call, sentinel,
                caller_vars, config>>

ResourceCol ==
    LET r == collection_property(__res_col, "resource") IN
    /\ __res_col' = r.col
    /\ __db' = r.db
    /\ __conn' = r.conn
    /\ last' = [op |-> "_resource_col", err |-> r.err]
    /\ UNCHANGED <<__datum_col, __res_update_col>>
    /\ backend_unchanged

ResourceUpdateCol ==
    LET r == collection_property(__res_update_col, "resource_update") IN
    /\ __res_update_col' = r.col
    /\ __db' = r.db
    /\ __conn' = r.conn
    /\ last' = [op |-> "_resource_update_col", err |-> r.err]
    /\ UNCHANGED <<__res_col, __datum_col>>
    /\ backend_unchanged

DatumCol ==
    LET r == collection_property(__datum_col, "datum") IN
    /\ __datum_col' = r.col
    /\ __db' = r.db
    /\ __conn' = r.conn
    /\ last' = [op |-> "_datum_col", err |-> r.err]
    /\ UNCHANGED <<__res_col, __res_update_col>>
    /\ backend_unchanged

\* disconnect(), and reconfigure(config) with the same database: the
\* resource_update handle is kept
Disconnect ==
    /\ __db' = "None"
    /\ __conn' = "None"
    /\ __datum_col' = "None"
    /\ __res_col' = "None"
    /\ last' = [op |-> "disconnect", err |-> OK]
    /\ UNCHANGED __res_update_col
    /\ backend_unchanged

Next ==
    \/ InsertResource
    \/ InsertDatum
    \/ Retrieve
    \/ GetSpecHandler
    \/ RegisterHandler
    \/ DeregisterHandler
    \/ HandlerContextEnter
    \/ HandlerContextExit
    \/ SetRootMap

Spec == Init /\ [][Next]_vars

\* the backend and retrieve, without scoped overlays
NextStore ==
    \/ InsertResource
    \/ InsertDatum
    \/ Retrieve
    \/ RegisterHandler
    \/ DeregisterHandler
    \/ SetRootMap

SpecStore == Init /\ [][NextStore]_vars

\* the registry, its overlays and the handler cache
NextRegistry ==
    \/ InsertResource
    \/ GetSpecHandler
    \/ RegisterHandler
    \/ DeregisterHandler
    \/ HandlerContextEnter
    \/ HandlerContextExit

SpecRegistry == Init /\ [][NextRegistry]_vars

\* repartitioning of root and resource_path, and the audit log
NextShift ==
    \/ InsertResourceShift
    \/ ShiftRoot
    \/ ShiftRootDoc
    \/ GetHistory

SpecShift == Init /\ [][NextShift]_vars

\* the update log of two resources
NextHistory == InsertResourceTwo \/ ShiftRootTwo \/ GetHistoryTwo

SpecHistory == Init /\ [][NextHistory]_vars

\* the operations that need schema version 1, on stores of either version
NextUnsupported ==
    \/ GetHistory
    \/ ShiftRoot
    \/ CopyFiles
    \/ ChangeRoot
    \/ ResourceGivenEid

SpecUnsupported == InitStored /\ [][NextUnsupported]_vars

\* copying the files of a resource
NextCopy ==
    \/ InsertResourceMove
    \/ InsertDatumMove
    \/ RegisterFileHandler
    \/ WriteFile
    \/ CopyFiles

SpecCopy == Init /\ [][NextCopy]_vars

\* opening and closing the collections of the document backend
NextBackend == ResourceCol \/ ResourceUpdateCol \/ DatumCol \/ Disconnect

SpecBackend == InitBackend /\ [][NextBackend]_vars

\* the collections of the relational backend
NextSqlite == SqliteInsertResource \/ SqliteInsertDatum \/ SqliteInsertUpdate

SpecSqlite == Init /\ [][NextSqlite]_vars

\* datums, inserted one by one or in bulk, and their retrieval
NextDatum ==
    \/ InsertResource
    \/ InsertDatum
    \/ BulkInsertDatum
    \/ RegisterHandler
    \/ Retrieve

SpecDatum == Init /\ [][NextDatum]_vars

\* change_root statement by statement; no other call is made while one is
\* in progress
NextSteps ==
    \/ call = Idle /\ InsertResourceMove
    \/ call = Idle /\ InsertDatumMove
    \/ call = Idle /\ RegisterFileHandler
    \/ call = Idle /\ WriteFile
    \/ ChangeRootEnter
    \/ ChangeRootCopy
    \/ ChangeRootUpdate
    \/ ChangeRootUpdateFails
    \/ ChangeRootUnlink
    \/ ChangeRootNuke
    \/ ChangeRootCrash

SpecSteps == Init /\ [][NextSteps]_vars

\* copying and moving the files of a resource
NextRelocate ==
    \/ InsertResource
    \/ InsertDatumMove
    \/ RegisterFileHandler
    \/ WriteFile
    \/ CopyFiles
    \/ ChangeRoot

SpecRelocate == Init /\ [][NextRelocate]_vars

\* moving the files of a resource, and renaming its root
NextMove ==
    \/ InsertResource
    \/ InsertDatumMove
    \/ RegisterFileHandler
    \/ WriteFile
    \/ ChangeRoot
    \/ ShiftRoot

SpecMove == Init /\ [][NextMove]_vars

\* ------------------------------------------------------------------- claims
\* The binding of spec s seen inside the n-th open block (n = 0: outside
\* every block): the block's own dictionary first, then what the enclosing
\* scope sees.
RECURSIVE BlockView(_, _)
BlockView(n, s) ==
    IF n = 0 THEN dicts[0][s]
    ELSE IF dicts[contexts[n].temp_handlers][s] # None
         THEN dicts[contexts[n].temp_handlers][s]
         ELSE BlockView(n - 1, s)

Bound(s) == BlockView(Len(contexts), s)

\* the path the handler of a stored resource is to be given
ExpectedPath(res) ==
    LET root == IF res.root \in DOMAIN root_map THEN root_map[res.root]
                ELSE res.root
    IN  IF root = <<>> THEN res.resource_path
        ELSE os_path_join(root, res.resource_path)

ExpectedValue(eid) ==
    LET res == Resources[Datums[eid].resource] IN
    [ctor |-> Bound(res.spec), path |-> ExpectedPath(res),
     rk |-> res.resource_kwargs, dk |-> Datums[eid].datum_kwargs]

\* C1: in every reachable state, retrieve(datum_id) of an inserted datum
\* whose spec is bound returns the value the bound handler computes for
\* (path, resource_kwargs, datum_kwargs), path being joined from the stored
\* Resource and the root_map in force.  Stated for the retrieves that do
\* not hit the datum cache, i.e. whose value comes from get_spec_handler.
C1_RetrieveReturnsHandlerValue ==
    \A eid \in DOMAIN Datums \ DOMAIN _datum_cache :
        Bound(Resources[Datums[eid].resource].spec) # None =>
            /\ retrieve(eid).err = OK
            /\ retrieve(eid).ret = ExpectedValue(eid)

\* C2: retrieve(datum_id) of a datum_id that was never inserted raises
\* DatumNotFound and leaves the backend and the three caches unchanged.
C2_UnknownDatumNotFound ==
    [][\A eid \in DatumIds :
        (eid \notin DOMAIN Datums /\ retrieve_step(eid)) =>
            /\ last'.err = "DatumNotFound"
            /\ UNCHANGED <<Resources, Datums, _datum_cache, _handler_cache,
                           _resource_cache>>]_vars

C2_Witness ==
    /\ last = [op |-> "retrieve", err |-> "DatumNotFound"]
    /\ DOMAIN _datum_cache # {}
    /\ DOMAIN _handler_cache # {}
    /\ DOMAIN _resource_cache # {}

\* C3: insert_datum with a datum_id that already exists raises
\* DuplicateKeyError and the stored datum keeps its resource and
\* datum_kwargs; a retrieve of it still answers with the first kwargs.
C3_DuplicateDatumRejected ==
    [][\A resource \in DOMAIN Resources, datum_id \in DOMAIN Datums,
         kw \in DatumKwargs :
        insert_datum_step(resource, datum_id, kw) =>
            /\ last'.err = "DuplicateKeyError"
            /\ Datums' = Datums
            /\ (retrieve(datum_id).err = OK =>
                    retrieve(datum_id).ret.dk = Datums[datum_id].datum_kwargs)'
      ]_vars

C3_Witness ==
    /\ last = [op |-> "insert_datum", err |-> "DuplicateKeyError"]
    /\ DOMAIN _datum_cache # {}

\* C4: register_handler(spec, h, overwrite=False) on a bound spec: bound to
\* the identical constructor it is a no-op, bound to another constructor it
\* raises DuplicateHandler; registry and handler cache are unchanged.
C4_RegisterBoundSpec ==
    [][\A key \in Specs, handler \in Handlers :
        (Bound(key) # None /\ register_handler_step(key, handler, FALSE)) =>
            /\ last'.err = IF Bound(key) = handler THEN OK
                           ELSE "DuplicateHandler"
            /\ UNCHANGED <<dicts, handler_reg, _handler_cache>>]_vars

C4_Witness ==
    /\ last = [op |-> "register_handler", err |-> "DuplicateHandler"]
    /\ DOMAIN _handler_cache # {}

\* C5: after register_handler(spec, h2, overwrite=True) on a bound spec the
\* registry resolves spec to h2 and the next get_spec_handler of a resource
\* of that spec returns an instance constructed by h2.
C5_OverwriteServesNewHandler ==
    [][\A key \in Specs, h2 \in Handlers :
        (Bound(key) # None /\ register_handler_step(key, h2, TRUE)) =>
            (/\ Bound(key) = h2
             /\ \A uid \in DOMAIN Resources :
                    Resources[uid].spec = key =>
                        get_spec_handler(uid).ret.ctor = h2)']_vars

C8_OverlayLookup ==
    \A uid \in DOMAIN Resources :
        LET b == Bound(Resources[uid].spec)
            r == get_spec_handler(uid)
        IN  IF b = None THEN r.err = "KeyError"
            ELSE r.err = OK /\ r.handler = b

C8_Witness ==
    /\ Len(contexts) = 2
    /\ last = [op |-> "get_spec_handler", err |-> OK]
    /\ \E uid \in DOMAIN Resources :
        LET s == Resources[uid].spec IN
        /\ dicts[contexts[2].temp_handlers][s] = None
        /\ dicts[contexts[1].temp_handlers][s] # None
        /\ dicts[0][s] # None
        /\ dicts[0][s] # dicts[contexts[1].temp_handlers][s]

\* C9: when a handler_context block exits, normally or by an error, the
\* registry is the registry in force at entry, dictionary by dictionary,
\* and no handler-cache entry built from the popped overlay remains.
C9_ExitRestores ==
    [][last'.op = "handler_context_exit" =>
        LET c == contexts[Len(contexts)] IN
        /\ handler_reg' = c.stash
        /\ Snapshot(handler_reg)' = c.entry
        /\ \A k \in DOMAIN _handler_cache' :
                _handler_cache'[k].via # c.temp_handlers]_vars

C9_Witness ==
    /\ last.op = "handler_context_exit"
    /\ last.err # OK
    /\ Len(contexts) = 1
    /\ DOMAIN _handler_cache # {}

\* C10: a change of handler binding is visible to retrieve at once: the
\* value retrieve returns is one computed by the constructor bound to the
\* resource's spec now, inside a block that rebinds it and after the block.
C10_RetrieveSeesBinding ==
    \A eid \in DOMAIN Datums :
        LET b == Bound(Resources[Datums[eid].resource].spec) IN
        (b # None /\ retrieve(eid).err = OK) => retrieve(eid).ret.ctor = b

\* two path strings denote the same path: both absolute or both relative,
\* and the same directories in the same order
SamePath(p, q) ==
    /\ startswith(p, <<sep>>) <=> startswith(q, <<sep>>)
    /\ path_segments(p) = path_segments(q)

\* C11: for every stored resource and every shift that shift_root accepts,
\* the new root joined with the new resource_path denotes the same path as
\* the old root joined with the old resource_path, leading separator
\* included.
C11_ShiftKeepsJoinedPath ==
    [][\A uid \in DOMAIN Resources, shift \in Shifts :
        (shift_root_step(UidArg(uid), shift) /\ last'.err = OK) =>
            SamePath(JoinedPath(Resources'[uid]), JoinedPath(Resources[uid]))
      ]_vars

\* C12: shift > 0 moves the first `shift` segments of resource_path to the
\* end of root; shift <= 0 moves the last -shift segments of root to the
\* front of resource_path; root 'a/b' with resource_path 'c/d' shifted by 1
\* becomes root 'a/b/c' with resource_path 'd'; shift 0 keeps the split.
C12_ShiftMovesSegments ==
    [][\A uid \in DOMAIN Resources, shift \in Shifts :
        (shift_root_step(UidArg(uid), shift) /\ last'.err = OK) =>
            LET R == path_segments(Resources[uid].root)
                P == path_segments(Resources[uid].resource_path)
                R2 == path_segments(Resources'[uid].root)
                P2 == path_segments(Resources'[uid].resource_path)
                k == Len(R) + shift
            IN  /\ shift > 0 => /\ R2 = R \o SubSeq(P, 1, shift)
                                /\ P2 = SubSeq(P, shift + 1, Len(P))
                /\ shift <= 0 => /\ R2 = SubSeq(R, 1, k)
                                 /\ P2 = SubSeq(R, k + 1, Len(R)) \o P
                /\ shift = 0 => R2 = R /\ P2 = P
                /\ (/\ Resources[uid].root = <<"a", "/", "b">>
                    /\ Resources[uid].resource_path = <<"c", "/", "d">>
                    /\ shift = 1)
                    => /\ Resources'[uid].root = <<"a", "/", "b", "/", "c">>
                       /\ Resources'[uid].resource_path = <<"d">>
      ]_vars

C12_Witness ==
    /\ last = [op |-> "shift_root", err |-> OK]
    /\ \E i \in DOMAIN ResourceUpdates :
        /\ ResourceUpdates[i].old.root = <<"a", "/", "b">>
        /\ ResourceUpdates[i].old.resource_path = <<"c", "/", "d">>
        /\ ResourceUpdates[i].new.root = <<"a", "/", "b", "/", "c">>
        /\ ResourceUpdates[i].new.resource_path = <<"d">>
    /\ \E i \in DOMAIN ResourceUpdates :
        Len(path_segments(ResourceUpdates[i].new.root)) <
            Len(path_segments(ResourceUpdates[i].old.root))

\* C13: shift_root succeeds exactly for the shifts from -len(root segments)
\* to +len(resource_path segments); outside that range it raises
\* RuntimeError and leaves the stored Resource and the update log unchanged.
C13_ShiftRange ==
    [][\A uid \in DOMAIN Resources, shift \in Shifts :
        shift_root_step(UidArg(uid), shift) =>
            LET R == path_segments(Resources[uid].root)
                P == path_segments(Resources[uid].resource_path)
            IN  IF 0 - Len(R) <= shift /\ shift <= Len(P)
                THEN last'.err = OK
                ELSE /\ last'.err = "RuntimeError"
                     /\ Resources' = Resources
                     /\ ResourceUpdates' = ResourceUpdates
      ]_vars

C13_Witness ==
    /\ last = [op |-> "shift_root", err |-> "RuntimeError"]
    /\ ResourceUpdates # <<>>
    /\ \E uid \in DOMAIN Resources :
        Len(path_segments(Resources[uid].root)) = 0

\* C14: shift_root handed a Resource document that differs from the record
\* stored for its uid raises RuntimeError and leaves the stored Resource
\* and the update log unchanged.
C14_StaleSnapshotRejected ==
    [][\A uid \in DOMAIN Resources, shift \in Shifts :
        \A doc \in Snapshots(uid) :
            (doc # Resources[uid] /\ shift_root_step(DocArg(doc), shift)) =>
                /\ last'.err = "RuntimeError"
                /\ Resources' = Resources
                /\ ResourceUpdates' = ResourceUpdates
      ]_vars

\* this step appended exactly one update row for uid: cmd names the
\* operation, old is the Resource stored before and new the one stored after
AppendedOne(uid, cmd) ==
    /\ Len(ResourceUpdates') = Len(ResourceUpdates) + 1
    /\ SubSeq(ResourceUpdates', 1, Len(ResourceUpdates)) = ResourceUpdates
    /\ LET row == ResourceUpdates'[Len(ResourceUpdates')] IN
        /\ row.resource = uid
        /\ row.cmd = cmd
        /\ row.old = Resources[uid]
        /\ row.new = Resources'[uid]

\* C15 as stated: every successful shift_root and every successful
\* change_root appends exactly one ResourceUpdate with cmd the operation
\* name, old the Resource stored before and new the Resource stored after;
\* a failed call appends none.
C15_FailedAppendsNone ==
    [][\A cmd \in {"shift_root", "change_root"} :
        last'.op = cmd =>
            IF last'.err = OK
            THEN \E uid \in DOMAIN Resources : AppendedOne(uid, cmd)
            ELSE ResourceUpdates' = ResourceUpdates
      ]_vars

\* C15: every successful shift_root and every successful change_root
\* appends exactly one ResourceUpdate with cmd the operation name, old the
\* Resource stored before and new the Resource stored after; a call that
\* fails before its metadata update appends none and changes no Resource;
\* a change_root that fails while deleting the original files has appended
\* its one record, which brackets the change of the Resource.
C15_OneUpdatePerCommit ==
    [][\A cmd \in {"shift_root", "change_root"} :
        last'.op = cmd =>
            IF last'.err = OK
            THEN \E uid \in DOMAIN Resources : AppendedOne(uid, cmd)
            ELSE \/ /\ ResourceUpdates' = ResourceUpdates
                    /\ Resources' = Resources
                    /\ \A f \in DOMAIN files : f \in DOMAIN files'
                 \/ /\ cmd = "change_root"
                    /\ \E uid \in DOMAIN Resources :
                        /\ AppendedOne(uid, cmd)
                        /\ Resources'[uid].root # Resources[uid].root
                    /\ LET row == ResourceUpdates'[Len(ResourceUpdates')] IN
                        /\ row.cmd_kwargs.remove_origin
                        /\ row.new.root = row.cmd_kwargs.new_root
                    /\ \E f \in DOMAIN files : f \notin DOMAIN files'
      ]_vars

\* a change_root has succeeded on a resource that a shift_root had
\* succeeded on
C15_Witness ==
    /\ last = [op |-> "change_root", err |-> OK]
    /\ \E i, j \in DOMAIN ResourceUpdates :
        /\ i < j
        /\ ResourceUpdates[i].cmd = "shift_root"
        /\ ResourceUpdates[j].cmd = "change_root"
        /\ ResourceUpdates[j].old.root # ResourceUpdates[j].new.root

\* s is an initial part of t
IsPrefix(s, t) == Len(s) <= Len(t) /\ SubSeq(t, 1, Len(s)) = s

FailedUnsupported ==
    /\ last'.err = "NotImplementedError"
    /\ UNCHANGED <<files, Resources, Datums, ResourceUpdates,
                   _handler_cache, _resource_cache, _datum_cache>>

\* C17: on a store of schema version 0 get_history, shift_root, copy_files,
\* change_root and resource_given_eid raise NotImplementedError, and so do
\* copy_files and change_root with verify=True on any version; in each case
\* no file is copied or deleted, no Resource is changed and no
\* ResourceUpdate is appended.
C17_UnsupportedFailsFirst ==
    [][/\ (/\ version = 0
           /\ last'.op \in {"get_history", "shift_root", "copy_files",
                            "resource_given_eid"})
            => FailedUnsupported
       /\ \A uid \in DOMAIN Resources, new_root \in NewRoots,
             hook \in Hooks :
            /\ copy_files_step(UidArg(uid), new_root, TRUE, hook)
                    => FailedUnsupported
            /\ \A remove_origin, verify \in BOOLEAN :
                    (/\ version = 0 \/ verify
                     /\ change_root_step(UidArg(uid), new_root,
                                         remove_origin, verify, hook))
                        => FailedUnsupported
      ]_vars

\* a version 0 store whose resource has its file on disk was asked to move
\* it
C17_Witness ==
    /\ version = 0
    /\ last = [op |-> "change_root", err |-> "NotImplementedError"]
    /\ \E uid \in DOMAIN Resources :
        \E e \in DOMAIN Datums :
            /\ Datums[e].resource = uid
            /\ JoinedPath(Resources[uid])
                    \o <<index_str(Datums[e].datum_kwargs)>>
                        \in DOMAIN files

\* C18: copy_files, successful or failed, leaves the Resources, Datums and
\* ResourceUpdates collections as they were before the call, and every file
\* that existed before the call still exists, with its content.
C18_CopyLeavesBackend ==
    [][\A uid \in UIDs, new_root \in NewRoots, verify \in BOOLEAN,
          hook \in Hooks :
        copy_files_step(UidArg(uid), new_root, verify, hook) =>
            /\ Resources' = Resources
            /\ Datums' = Datums
            /\ ResourceUpdates' = ResourceUpdates
            /\ \A f \in DOMAIN files :
                    f \in DOMAIN files' /\ files'[f] = files[f]
      ]_vars

\* a copy_files has succeeded and a copy of a file lies beside its source
C18_Witness ==
    /\ last = [op |-> "copy_files", err |-> OK]
    /\ \E f, g \in DOMAIN files :
        /\ f # g
        /\ files[f] = f
        /\ files[g] = f

\* the directories a list of segments leads through, ".." stepping back
RECURSIVE Resolve(_, _)
Resolve(segs, acc) ==
    IF segs = <<>> THEN acc
    ELSE IF Head(segs) = <<".", ".">>
    THEN Resolve(Tail(segs), SubSeq(acc, 1, Len(acc) - 1))
    ELSE Resolve(Tail(segs), Append(acc, Head(segs)))

\* C19: a successful copy_files returns one (source, destination) pair per
\* datum of the resource, in the order of the datums; the source is the
\* datum's file, the destination is new_root joined with a relative path
\* that leads from the resource's root (from '/' when the stored root is
\* empty) to the source; afterwards every destination exists and holds
\* what the source held.
C19_CopyPairs ==
    [][\A uid \in UIDs, new_root \in NewRoots, hook \in Hooks :
        (/\ copy_files_step(UidArg(uid), new_root, FALSE, hook)
         /\ last'.err = OK) =>
            LET ret == copy_files(UidArg(uid), new_root, FALSE, hook).ret
                res == Resources[uid]
                old_root == IF res.root = <<>> THEN <<sep>> ELSE res.root
                ids == SelectSeq([i \in 1..(MaxDatums + 1) |-> i],
                                 LAMBDA i : /\ i \in DOMAIN Datums
                                            /\ Datums[i].resource = uid)
            IN  /\ Len(ret) = Len(ids)
                /\ \A k \in DOMAIN ret :
                    LET source == ret[k][1]
                        destination == ret[k][2]
                        rel == SubSeq(destination, Len(new_root) + 2,
                                      Len(destination))
                    IN  /\ source = JoinedPath(res) \o
                            <<index_str(Datums[ids[k]].datum_kwargs)>>
                        /\ destination = new_root \o <<sep>> \o rel
                        /\ rel # <<>> /\ rel[1] # sep
                        /\ Resolve(path_segments(old_root) \o
                                   path_segments(rel), <<>>)
                                = path_segments(source)
                        /\ destination \in DOMAIN files'
                        /\ files'[destination] = files[source]
      ]_vars

\* the two files of a resource without a root have been copied
C19_Witness ==
    /\ last = [op |-> "copy_files", err |-> OK]
    /\ \E uid \in DOMAIN Resources :
        /\ Resources[uid].root = <<>>
        /\ \E f, g \in DOMAIN files :
            /\ f # g
            /\ files[f] = f /\ files[g] = g
            /\ startswith(f, JoinedPath(Resources[uid]))
            /\ startswith(g, JoinedPath(Resources[uid]))
            /\ \E f2, g2 \in DOMAIN files \ {f, g} :
                files[f2] = f /\ files[g2] = g

\* the files listed for the resource can be obtained and one of them does
\* not begin with the resource's root ('/' when the stored root is empty)
FilesOutsideRoot(uid) ==
    LET res == Resources[uid]
        datum_gen == datum_gen_given_resource(res)
        fl == core_get_file_list(res,
                [k \in DOMAIN datum_gen |-> datum_gen[k].datum_kwargs])
        old_root == IF res.root = <<>> THEN <<sep>> ELSE res.root
    IN  /\ fl.err = OK
        /\ \E k \in DOMAIN fl.ret : ~startswith(fl.ret[k], old_root)

\* the step raised RuntimeError, and no file, Resource or update record
\* was created, changed or removed
FailedUntouched ==
    /\ last'.err = "RuntimeError"
    /\ files' = files
    /\ Resources' = Resources
    /\ ResourceUpdates' = ResourceUpdates

\* C20: when a file listed for the resource does not begin with the
\* resource's current root, copy_files and change_root raise RuntimeError
\* before copying any file: no destination file is created, no Resource is
\* changed and no ResourceUpdate is appended.
C20_RootMismatchAborts ==
    [][\A uid \in DOMAIN Resources, new_root \in NewRoots, hook \in Hooks :
        FilesOutsideRoot(uid) =>
            /\ copy_files_step(UidArg(uid), new_root, FALSE, hook)
                    => FailedUntouched
            /\ \A remove_origin \in BOOLEAN :
                    change_root_step(UidArg(uid), new_root, remove_origin,
                                     FALSE, hook) => FailedUntouched
      ]_vars

\* a change_root was refused for a resource whose file is on disk but not
\* under the root now stored for it
C20_Witness ==
    /\ last = [op |-> "change_root", err |-> "RuntimeError"]
    /\ \E uid \in DOMAIN Resources :
        /\ FilesOutsideRoot(uid)
        /\ Resources[uid].root # <<>>
        /\ \E e \in DOMAIN Datums :
            /\ Datums[e].resource = uid
            /\ \E f \in DOMAIN files : files[f] # f

\* every destination of the call in progress holds a copy
AllCopied ==
    \A k \in DOMAIN call.pairs : call.pairs[k][2] \in DOMAIN files

\* the call in progress has written its new root and its update record
Committed ==
    /\ Resources[call.resource.uid].root = call.new_root
    /\ ResourceUpdates # <<>>
    /\ LET row == ResourceUpdates[Len(ResourceUpdates)] IN
        /\ row.cmd = "change_root"
        /\ row.old = call.resource
        /\ row.new = Resources[call.resource.uid]

\* C21: within a change_root call the files are copied first, then the
\* Resource root is updated and the ResourceUpdate appended, then the
\* originals are deleted, and only with remove_origin: a file is copied
\* only while nothing is committed, the commit happens only when every
\* file is copied and no original is gone, and a file disappears only in
\* a call with remove_origin whose copies and commit are all done; so a
\* failed copy or a failed update deletes nothing.
C21_CopyUpdateDelete ==
    [][/\ (\E f \in DOMAIN files : f \notin DOMAIN files') =>
            /\ call.pc = "unlink"
            /\ call.remove_origin
            /\ AllCopied
            /\ Committed
       /\ (Resources' # Resources \/ ResourceUpdates' # ResourceUpdates) =>
            \/ call.pc = "idle"
            \/ /\ call.pc = "copy"
               /\ AllCopied
               /\ \A k \in DOMAIN call.pairs :
                    call.pairs[k][1] \in DOMAIN files
               /\ Len(ResourceUpdates') = Len(ResourceUpdates) + 1
               /\ Committed'
       /\ (call.pc # "idle" /\ \E f \in DOMAIN files' :
                f \notin DOMAIN files \/ files'[f] # files[f]) =>
            /\ call.pc = "copy"
            /\ Resources[call.resource.uid] = call.resource
            /\ Resources' = Resources
            /\ ResourceUpdates' = ResourceUpdates
      ]_vars

\* the first of two original files has been deleted, the second not yet
C21_Witness ==
    /\ call.pc = "unlink"
    /\ Len(call.pairs) = 2
    /\ call.i = 2
    /\ call.pairs[1][1] \notin DOMAIN files
    /\ call.pairs[2][1] \in DOMAIN files

\* the datums of a resource
DatumsOf(uid) == {e \in DOMAIN Datums : Datums[e].resource = uid}

\* the file of a datum at the place the stored Resource gives
StoredPlace(e) ==
    JoinedPath(Resources[Datums[e].resource])
        \o <<index_str(Datums[e].datum_kwargs)>>

\* C22: after a successful change_root(resource, new_root) the stored
\* Resource root equals new_root; every file of the resource exists under
\* new_root, at new_root joined with a relative path that leads from the
\* old root to the original, with the original's content; the originals no
\* longer exist when remove_origin is true and still exist, unchanged, when
\* it is false.
C22_ChangeRootMoves ==
    [][(last'.op = "change_root" /\ last'.err = OK) =>
            LET row == ResourceUpdates'[Len(ResourceUpdates')]
                uid == row.old.uid
                new_root == row.cmd_kwargs.new_root
                remove_origin == row.cmd_kwargs.remove_origin
                old_root == IF Resources[uid].root = <<>> THEN <<sep>>
                            ELSE Resources[uid].root
            IN  /\ row.cmd = "change_root"
                /\ row.old = Resources[uid]
                /\ Resources'[uid].root = new_root
                /\ \A e \in DatumsOf(uid) :
                    LET original == StoredPlace(e) IN
                    /\ original \in DOMAIN files
                    /\ \E destination \in DOMAIN files' :
                        LET rel == SubSeq(destination, Len(new_root) + 2,
                                          Len(destination))
                        IN  /\ destination = new_root \o <<sep>> \o rel
                            /\ rel # <<>> /\ rel[1] # sep
                            /\ Resolve(path_segments(old_root) \o
                                       path_segments(rel), <<>>)
                                    = path_segments(original)
                            /\ files'[destination] = files[original]
                    /\ remove_origin => original \notin DOMAIN files'
                    /\ ~remove_origin =>
                            /\ original \in DOMAIN files'
                            /\ files'[original] = files[original]
      ]_vars

\* a resource with two files has been moved from root a to root b and the
\* originals are gone
C22_Witness ==
    /\ last = [op |-> "change_root", err |-> OK]
    /\ ResourceUpdates # <<>>
    /\ LET row == ResourceUpdates[Len(ResourceUpdates)] IN
        /\ row.cmd = "change_root"
        /\ row.cmd_kwargs.remove_origin
        /\ row.old.root = <<"a">>
        /\ Resources[row.old.uid].root = <<"b">>
        /\ Cardinality({StoredPlace(e) : e \in DatumsOf(row.old.uid)}) = 2
        /\ \A e \in DatumsOf(row.old.uid) :
            /\ StoredPlace(e) \in DOMAIN files
            /\ files[StoredPlace(e)] \notin DOMAIN files

\* the last row of the update log, and the resource it is about
LastUpdate == ResourceUpdates[Len(ResourceUpdates)]

\* neither cache holds the resource of the last update, and a handler
\* obtained for it now is constructed from the root that update wrote
EvictedAfterUpdate ==
    LET uid == LastUpdate.old.uid
        moved == os_path_join(LastUpdate.cmd_kwargs.new_root,
                              Resources[uid].resource_path)
        h == get_spec_handler(uid)
    IN  /\ uid \notin DOMAIN _resource_cache
        /\ \A k \in DOMAIN _handler_cache : k[1] # uid
        /\ h.err = OK => h.built /\ h.ret.path = moved
        /\ \A e \in DatumsOf(uid) :
            (e \notin DOMAIN _datum_cache /\ retrieve(e).err = OK) =>
                retrieve(e).built /\ retrieve(e).ret.path = moved

MappedHandlers ==
    \A uid \in DOMAIN Resources :
        (/\ Resources[uid].root \in DOMAIN root_map
         /\ get_spec_handler(uid).err = OK) =>
            get_spec_handler(uid).ret.path =
                os_path_join(root_map[Resources[uid].root],
                             Resources[uid].resource_path)

\* C24: root_map is applied at retrieval time: after set_root_map(m) the
\* handler used for a resource whose stored root is a key of m is one
\* constructed with join(m[root], resource_path), also when a handler for
\* the resource had been obtained before set_root_map was called; and
\* neither set_root_map nor a retrieval changes a stored Resource.
C24_RootMapAtRetrieval ==
    [][/\ MappedHandlers'
       /\ last'.op \in {"set_root_map", "retrieve", "get_spec_handler"}
            => Resources' = Resources
      ]_vars

\* a sentinel of a versioned collection is missing or differs from the
\* version of the FileStore
SentinelBad ==
    \E c \in versioned_collection :
        c \notin DOMAIN sentinel \/ sentinel[c] # version

\* C25: with schema version > 0 the access to a collection raises
\* RuntimeError whenever the sentinel of 'resource' or 'datum' is missing or
\* differs from the version of the FileStore, on every attempt, an attempt
\* made after an earlier failed attempt included.
C25_SentinelEveryAttempt ==
    [][(/\ version > 0
        /\ SentinelBad
        /\ last'.op \in {"_resource_col", "_resource_update_col",
                         "_datum_col"})
            => last'.err = "RuntimeError"
      ]_vars

\* C26: a mapping-valued field comes back from the relational backend as
\* it went in: after insert_one the resource_kwargs that find_one returns,
\* the datum_kwargs that find_one and find return, and the old, new and
\* cmd_kwargs that find returns equal the values inserted.
C26_MappingsRoundTrip ==
    [][/\ \A uid \in UIDs, kw \in Kwargs :
            sqlite_insert_resource_step(uid, kw) =>
                sqlite_ResourceCollection_find_one(uid)'.resource_kwargs = kw
       /\ \A datum_id \in DatumIds, kw \in Kwargs :
            \A resource \in DOMAIN Resources :
                sqlite_insert_datum_step(datum_id, resource, kw) =>
                    /\ sqlite_DatumCollection_find_one(datum_id)'
                            .datum_kwargs = kw
                    /\ \E k \in DOMAIN sqlite_DatumCollection_find(resource)' :
                        sqlite_DatumCollection_find(resource)'[k]
                            = [datum_id |-> datum_id, resource |-> resource,
                               datum_kwargs |-> kw]
       /\ \A was \in Kwargs, kw \in Kwargs, cmd_kwargs \in Kwargs :
            \A uid \in DOMAIN Resources :
                sqlite_insert_update_step(uid, was, kw, cmd_kwargs) =>
                    LET row == sqlite_ResourceUpdatesCollection_find(uid)'[1]
                    IN  /\ row.cmd_kwargs = cmd_kwargs
                        /\ \E k \in DOMAIN row.old.items :
                                row.old.items[k] =
                                    <<PyStr("resource_kwargs"), was>>
                        /\ \E k \in DOMAIN row.new.items :
                                row.new.items[k] =
                                    <<PyStr("resource_kwargs"), kw>>
      ]_vars

\* the stored datums whose resource is not in the Resources table
Dangling == {e \in DOMAIN Datums : Datums[e].resource \notin DOMAIN Resources}

C28_RecordsCallerShift ==
    [][\A uid \in DOMAIN Resources, shift \in Shifts :
        (/\ shift_root_step(UidArg(uid), shift)
         /\ last'.err = OK) =>
            /\ Len(ResourceUpdates') = Len(ResourceUpdates) + 1
            /\ LastUpdate'.cmd = "shift_root"
            /\ LastUpdate'.cmd_kwargs = [shift |-> shift]
      ]_vars

\* C29: at every point of a change_root call, a failure or a crash at any
\* step included, every file of the resource exists with its content at
\* the location given by the root currently stored: no step of a call
\* takes a file of the resource away from the place the stored Resource
\* gives for it, or changes what is found there.
C29_FilesAtStoredRoot ==
    [][call.pc # "idle" =>
        \A e \in DatumsOf(call.resource.uid) :
            StoredPlace(e) \in DOMAIN files =>
                /\ StoredPlace(e)' \in DOMAIN files'
                /\ files'[StoredPlace(e)'] = files[StoredPlace(e)]
      ]_vars

\* C30: after a shift_root or a change_root that changed where a resource
\* is stored has returned, the resource cache holds no entry for that
\* resource whose root or resource_path differs from the stored record.
C30_NoStaleResourceEntry ==
    [][(/\ last'.op \in {"shift_root", "change_root"}
        /\ last'.err = OK) =>
            LET uid == ResourceUpdates'[Len(ResourceUpdates')].old.uid IN
            uid \in DOMAIN _resource_cache' =>
                /\ _resource_cache'[uid].root = Resources'[uid].root
                /\ _resource_cache'[uid].resource_path =
                        Resources'[uid].resource_path
      ]_vars

\* what a call leaves and returns, apart from the calls made to the hook
Outcome(r) == [err |-> r.err, ret |-> r.ret, files |-> r.files]

\* what a change_root call leaves
Moved(r) ==
    [err |-> r.err, files |-> r.files, Resources |-> r.Resources,
     ResourceUpdates |-> r.ResourceUpdates]

\* with a hook, raising or not, a call of copy_files or change_root made
\* now has the outcome of the call without hook; the hook is called once
\* per file of a successful copy, in order, and for each file written
HookIndependent ==
    \A uid \in DOMAIN Resources, new_root \in NewRoots,
       hook \in Hooks \ {"None"} :
        LET r == copy_files(UidArg(uid), new_root, FALSE, hook)
            none == copy_files(UidArg(uid), new_root, FALSE, "None")
        IN  /\ Outcome(r) = Outcome(none)
            /\ r.err = OK =>
                /\ Len(r.hooked) = Len(r.ret)
                /\ \A k \in DOMAIN r.ret :
                    r.hooked[k] = <<k - 1, Len(r.ret),
                                    r.ret[k][1], r.ret[k][2]>>
            /\ \A f \in DOMAIN r.files :
                (f \notin DOMAIN files \/ r.files[f] # files[f])
                    => \E k \in DOMAIN r.hooked : r.hooked[k][4] = f
            /\ \A remove_origin \in BOOLEAN :
                Moved(change_root(UidArg(uid), new_root, remove_origin,
                                  FALSE, hook))
                    = Moved(change_root(UidArg(uid), new_root,
                                        remove_origin, FALSE, "None"))

\* the step taken is one a call without hook takes
HooklessStep ==
    /\ last'.op = "copy_files" =>
        \E uid \in UIDs, new_root \in NewRoots, verify \in BOOLEAN :
            LET none == copy_files(UidArg(uid), new_root, verify, "None")
            IN  /\ files' = none.files
                /\ last'.err = none.err
                /\ _handler_cache' = none.hcache
    /\ last'.op = "change_root" =>
        \E uid \in UIDs, new_root \in NewRoots, verify \in BOOLEAN,
           remove_origin \in BOOLEAN :
            LET none == change_root(UidArg(uid), new_root, remove_origin,
                                    verify, "None")
            IN  /\ files' = none.files
                /\ Resources' = none.Resources
                /\ ResourceUpdates' = none.ResourceUpdates
                /\ last'.err = none.err

\* C31: a file_rename_hook, raising or not, never changes the outcome of
\* copy_files or change_root: the same files are copied, the same pairs
\* returned and the same error, if any, raised as with no hook; in a call
\* that succeeds the hook is invoked once per file, in order, with
\* (index, total, source, destination), and in every call it was invoked
\* for a file before that file is copied.
C31_HookNeverMatters == []HookIndependent /\ [][HooklessStep]_vars

\* a copy_files has succeeded for a resource with two files, which a
\* raising hook is called for twice
C31_Witness ==
    /\ last = [op |-> "copy_files", err |-> OK]
    /\ \E uid \in DOMAIN Resources, new_root \in NewRoots :
        LET r == copy_files(UidArg(uid), new_root, FALSE, "raises") IN
        /\ r.err = OK
        /\ Len(r.hooked) = 2
        /\ r.ret[1][2] \in DOMAIN files
        /\ r.ret[2][2] \in DOMAIN files

\* the key get_spec_handler files the instance of a resource under
HandlerKey(uid) ==
    <<uid, __name__(ChainMap_getitem(handler_reg, Resources[uid].spec))>>

\* C32: while the binding and the handler cache entry stay, repeated
\* get_spec_handler calls for a resource return the instance cached under
\* (uid, constructor name) and construct nothing: a call constructs an
\* instance only when the key is not in the cache, and then files it
\* under the key; a call made right after a call returns that instance
\* without constructing; and no step replaces the instance filed under a
\* key that stays in the cache.
C32_OneInstancePerKey ==
    [][/\ \A uid \in DOMAIN Resources :
            (get_spec_handler_step(uid) /\ last'.err = OK) =>
                LET r == get_spec_handler(uid)
                    key == HandlerKey(uid)
                IN  /\ r.built <=> key \notin DOMAIN _handler_cache
                    /\ ~r.built => /\ r.ret = _handler_cache[key]
                                   /\ _handler_cache' = _handler_cache
                    /\ r.built =>
                            _handler_cache' = Put(_handler_cache, key, r.ret)
                    /\ get_spec_handler(uid)'.err = OK
                    /\ ~get_spec_handler(uid)'.built
                    /\ get_spec_handler(uid)'.ret = r.ret
       /\ \A k \in DOMAIN _handler_cache \cap DOMAIN _handler_cache' :
            _handler_cache'[k] = _handler_cache[k]
      ]_vars

\* get_spec_handler has returned an instance that is in the cache and a
\* call made now returns it again
C32_Witness ==
    /\ last = [op |-> "get_spec_handler", err |-> OK]
    /\ \E uid \in DOMAIN Resources :
        /\ ChainMap_contains(handler_reg, Resources[uid].spec)
        /\ HandlerKey(uid) \in DOMAIN _handler_cache
        /\ ~get_spec_handler(uid).built
        /\ get_spec_handler(uid).ret = _handler_cache[HandlerKey(uid)]

\* ------------------------------------------------ concurrent datum inserts
\* Several callers insert datums at once.  The callers of the document
\* backend share the FileStore and its __datum_col handle; a sqlite
\* connection serves the thread that opened it only, so the callers of the
\* relational backend each hold a connection of their own, and the table
\* was created with its PRIMARY KEY (unique_index from the start).

\* the rows of the table that carry datum_id
rows_of(rows, datum_id) == {k \in DOMAIN rows : rows[k].datum_id = datum_id}

\* an INSERT_DATUM that no key guards
INSERT_DATUM_no_key(rows, unique, datum) ==
    [err |-> OK, rows |-> Append(rows, datum)]

\* INSERT_DATUM on the table: the key rejects a datum_id some row carries
INSERT_DATUM(rows, unique, datum) ==
    IF unique /\ rows_of(rows, datum.datum_id) # {}
    THEN [err |-> "DuplicateKeyError", rows |-> rows]
    ELSE [err |-> OK, rows |-> Append(rows, datum)]

\* a caller's write transaction is open: it has executed and not committed
holds_write_lock(c) == callers[c].pc = "else"

race_unchanged ==
    UNCHANGED <<Resources, Datums, dicts, handler_reg, contexts, root_map,
                _datum_cache, _handler_cache, _resource_cache, last,
                ResourceUpdates, files, version, call, sentinel, __res_col,
                __res_update_col, config>>

\* caller c calls insert_datum(resource, datum_id, datum_kwargs)
insert_datum_call(c, datum_id, datum_kwargs) ==
    /\ callers[c] = Idle
    /\ Len(datum_rows) <= MaxDatums
    /\ callers' = [callers EXCEPT ![c] =
            [pc |-> "_datum_col",
             datum |-> [datum_id |-> datum_id, resource |-> 1,
                        datum_kwargs |-> datum_kwargs],
             fresh |-> rows_of(datum_rows, datum_id) = {},
             err |-> OK]]
    /\ UNCHANGED <<datum_rows, unique_index, __db, __conn, __datum_col>>
    /\ race_unchanged

\* col = self._datum_col: the test of the handle and, when it is None,
\* the assignment of the collection to it
datum_col_test(c) ==
    /\ callers[c].pc = "_datum_col"
    /\ IF __datum_col # "None"
       THEN /\ callers' = [callers EXCEPT ![c].pc = "cursor"]
            /\ UNCHANGED <<__db, __conn, __datum_col>>
       ELSE /\ callers' = [callers EXCEPT ![c].pc = "create_index"]
            /\ __datum_col' = "datum"
            /\ __db' = _db.db
            /\ __conn' = _db.conn
    /\ UNCHANGED <<datum_rows, unique_index>>
    /\ race_unchanged

\* self.__datum_col.create_index('datum_id', unique=True): refused when
\* two rows carry one datum_id
datum_col_create_index(c) ==
    /\ callers[c].pc = "create_index"
    /\ IF \E k \in DOMAIN datum_rows :
            Cardinality(rows_of(datum_rows, datum_rows[k].datum_id)) > 1
       THEN /\ callers' = [callers EXCEPT ![c].pc = "done",
                                         ![c].err = "DuplicateKeyError"]
            /\ UNCHANGED unique_index
       ELSE /\ callers' = [callers EXCEPT ![c].pc = "cursor"]
            /\ unique_index' = TRUE
    /\ UNCHANGED <<datum_rows, __db, __conn, __datum_col>>
    /\ race_unchanged

\* with cursor(self._conn) as c: c.execute(INSERT_DATUM, ...); the
\* statement waits while another caller's write transaction is open
cursor_execute(c) ==
    /\ callers[c].pc = "cursor"
    /\ \A o \in Callers : ~holds_write_lock(o)
    /\ LET r == INSERT_DATUM(datum_rows, unique_index, callers[c].datum) IN
        /\ datum_rows' = r.rows
        /\ callers' = [callers EXCEPT
                ![c].pc = IF r.err = OK THEN "else" ELSE "except",
                ![c].err = r.err]
    /\ UNCHANGED <<unique_index, __db, __conn, __datum_col>>
    /\ race_unchanged

\* cursor: else: connection.commit()
cursor_commit(c) ==
    /\ callers[c].pc = "else"
    /\ callers' = [callers EXCEPT ![c].pc = "done"]
    /\ UNCHANGED <<datum_rows, unique_index, __db, __conn, __datum_col>>
    /\ race_unchanged

\* cursor: except: connection.rollback(); raise
cursor_rollback(c) ==
    /\ callers[c].pc = "except"
    /\ callers' = [callers EXCEPT ![c].pc = "done"]
    /\ UNCHANGED <<datum_rows, unique_index, __db, __conn, __datum_col>>
    /\ race_unchanged

\* the caller has its outcome and is free to call again
insert_datum_return(c) ==
    /\ callers[c].pc = "done"
    /\ \A o \in Callers : callers[o].pc \in {"idle", "done"}
    /\ callers' = [callers EXCEPT ![c] = Idle]
    /\ UNCHANGED <<datum_rows, unique_index, __db, __conn, __datum_col>>
    /\ race_unchanged

InsertDatumCall ==
    \E c \in Callers, datum_id \in DatumIds, datum_kwargs \in DatumKwargs :
        insert_datum_call(c, datum_id, datum_kwargs)

DatumColTest == \E c \in Callers : datum_col_test(c)

DatumColCreateIndex == \E c \in Callers : datum_col_create_index(c)

CursorExecute == \E c \in Callers : cursor_execute(c)

CursorCommit == \E c \in Callers : cursor_commit(c)

CursorRollback == \E c \in Callers : cursor_rollback(c)

InsertDatumReturn == \E c \in Callers : insert_datum_return(c)

\* a fresh document database (no index yet) or a table with its key
InitRace ==
    /\ Resources = EmptyMap
    /\ Datums = EmptyMap
    /\ dicts = [d \in DictIds |-> EmptyReg]
    /\ handler_reg = <<0>>
    /\ contexts = <<>>
    /\ root_map = EmptyMap
    /\ _datum_cache = EmptyMap
    /\ _handler_cache = EmptyMap
    /\ _resource_cache = EmptyMap
    /\ last = [op |-> "init", err |-> OK]
    /\ ResourceUpdates = <<>>
    /\ files = EmptyMap
    /\ version = 1
    /\ call = Idle
    /\ sentinel = [c \in versioned_collection |-> 1]
    /\ Disconnected
    /\ config = "db1"
    /\ callers = [c \in Callers |-> Idle]
    /\ datum_rows = <<>>
    /\ unique_index \in BOOLEAN

NextRace ==
    \/ InsertDatumCall
    \/ DatumColTest
    \/ DatumColCreateIndex
    \/ CursorExecute
    \/ CursorCommit
    \/ CursorRollback
    \/ InsertDatumReturn

SpecRace == InitRace /\ [][NextRace]_vars

\* two callers whose insert_datum calls of one datum_id overlapped, the id
\* being in no row when either call began, and both calls are over
RacedOn(c1, c2) ==
    /\ c1 # c2
    /\ callers[c1].pc = "done"
    /\ callers[c2].pc = "done"
    /\ callers[c1].datum.datum_id = callers[c2].datum.datum_id
    /\ callers[c1].fresh
    /\ callers[c2].fresh

AllIdle == \A c \in Callers : callers[c] = Idle

overlap_unchanged ==
    UNCHANGED <<Resources, Datums, contexts, root_map, _datum_cache,
                _resource_cache, ResourceUpdates, files, version, call,
                backend_vars, datum_rows, unique_index>>

\* caller c enters `with fs.handler_context(temp_handlers)`
handler_context_enter_shared(c, temp_handlers) ==
    /\ callers[c] = Idle
    /\ \A i \in DOMAIN handler_reg : handler_reg[i] # c
    /\ \A o \in Callers : callers[o] # Idle =>
            \A i \in DOMAIN callers[o].stash : callers[o].stash[i] # c
    /\ callers' = [callers EXCEPT ![c] =
            [pc |-> "yield", stash |-> handler_reg,
             before |-> IF AllIdle THEN View(handler_reg)
                        ELSE LET o == CHOOSE x \in Callers :
                                            callers[x] # Idle
                             IN  callers[o].before]]
    /\ dicts' = [dicts EXCEPT ![c] = temp_handlers]
    /\ handler_reg' = new_child(handler_reg, c)
    /\ last' = [op |-> "handler_context", err |-> OK]
    /\ UNCHANGED _handler_cache
    /\ overlap_unchanged

\* caller c leaves its block: the finally-block runs with c's stash
handler_context_exit_shared(c) ==
    /\ callers[c] # Idle
    /\ LET r == handler_context_exit(callers[c].stash) IN
        /\ handler_reg' = r.reg
        /\ _handler_cache' = r.hcache
    /\ callers' = [callers EXCEPT ![c] = Idle]
    /\ last' = [op |-> "handler_context_exit", err |-> OK]
    /\ UNCHANGED dicts
    /\ overlap_unchanged

HandlerContextEnterShared ==
    \E c \in Callers, temp_handlers \in TempHandlers :
        handler_context_enter_shared(c, temp_handlers)

HandlerContextExitShared == \E c \in Callers : handler_context_exit_shared(c)

\* registering in the base dictionary while no block is open
RegisterHandlerOutside == AllIdle /\ handler_reg = <<0>> /\ RegisterHandler

NextOverlap ==
    \/ RegisterHandlerOutside
    \/ HandlerContextEnterShared
    \/ HandlerContextExitShared

SpecOverlap == Init /\ [][NextOverlap]_vars

\* C34: when several callers use handler_context on one FileStore, in any
\* interleaving of their entries and exits, once all blocks have exited
\* the registry is the one in force before the first block was entered:
\* every spec is bound as it was then, and no binding of a temp_handlers
\* dictionary is visible.
C34_OverlayRestored ==
    [][\A c \in Callers :
        (/\ handler_context_exit_shared(c)
         /\ \A o \in Callers : callers'[o] = Idle)
            => View(handler_reg)' = callers[c].before
      ]_vars

\* --------------------------------------------------- concurrent retrieves
\* Callers that share the FileStore run retrieve statement by statement.
\* Every operation on one of the three caches is one step: boltons' LRU
\* takes its lock for each operation (on_miss included).  Nothing but
\* retrieve runs.

\* h_cache a copy of the handler cache taken when it was bound
h_cache_setitem_copy(h_cache, key, ret) == Put(h_cache, key, ret)

\* h_cache[key] = ret, h_cache being self._handler_cache itself
h_cache_setitem(h_cache, key, ret) == Put(_handler_cache, key, ret)

\* a caller's locals
Locals(pc, eid, expect, datum, resource, h_cache, handler, ret, err) ==
    [pc |-> pc, eid |-> eid, expect |-> expect, datum |-> datum,
     resource |-> resource, h_cache |-> h_cache, handler |-> handler,
     ret |-> ret, err |-> err]

\* the locals of caller c at its next statement, with what a statement set
Goto(c, pc) == [callers[c] EXCEPT !.pc = pc]

Raise(c, err) == [callers[c] EXCEPT !.pc = "done", !.err = err]

retrieve_unchanged ==
    UNCHANGED <<Resources, Datums, dicts, handler_reg, contexts, root_map,
                last, ResourceUpdates, files, version, call, backend_vars,
                datum_rows, unique_index>>

\* caller c calls retrieve(eid); expect is what a retrieve that ran alone
\* from this state would return
retrieve_call(c, eid) ==
    /\ callers[c] = Idle
    /\ callers' = [callers EXCEPT ![c] =
            Locals("datum_cache", eid,
                   [err |-> retrieve(eid).err, ret |-> retrieve(eid).ret],
                   None, None, EmptyMap, None, None, OK)]
    /\ UNCHANGED <<_datum_cache, _handler_cache, _resource_cache>>
    /\ retrieve_unchanged

\* core.retrieve: the datum cache, and on a miss the Datum record
retrieve_lookup(c) ==
    /\ callers[c].pc = "datum_cache"
    /\ LET eid == callers[c].eid IN
       callers' = [callers EXCEPT ![c] =
            IF eid \in DOMAIN _datum_cache
            THEN [callers[c] EXCEPT !.pc = "done",
                                    !.ret = _datum_cache[eid]]
            ELSE IF DatumCollection_find_one(eid) = None
            THEN Raise(c, "DatumNotFound")
            ELSE [callers[c] EXCEPT !.pc = "_resource_cache",
                                    !.datum = DatumCollection_find_one(eid)]]
    /\ UNCHANGED <<_datum_cache, _handler_cache, _resource_cache>>
    /\ retrieve_unchanged

\* get_spec_handler: resource = self._resource_cache[resource];
\* h_cache = self._handler_cache; handler = self.handler_reg[spec]
get_spec_handler_resource(c) ==
    /\ callers[c].pc = "_resource_cache"
    /\ LET r == resource_cache_getitem(callers[c].datum.resource) IN
        /\ _resource_cache' = r.cache
        /\ callers' = [callers EXCEPT ![c] =
                IF r.err # OK THEN Raise(c, r.err)
                ELSE IF ~ChainMap_contains(handler_reg, r.doc.spec)
                THEN Raise(c, "KeyError")
                ELSE [callers[c] EXCEPT !.pc = "try",
                                        !.resource = r.doc,
                                        !.h_cache = _handler_cache]]
    /\ UNCHANGED <<_datum_cache, _handler_cache>>
    /\ retrieve_unchanged

\* key = (str(resource['uid']), handler.__name__)
handler_key(resource) ==
    <<resource.uid, __name__(ChainMap_getitem(handler_reg, resource.spec))>>

\* try: return h_cache[key]  except KeyError: pass
get_spec_handler_try(c) ==
    /\ callers[c].pc = "try"
    /\ LET key == handler_key(callers[c].resource) IN
       callers' = [callers EXCEPT ![c] =
            IF key \in DOMAIN _handler_cache
            THEN [callers[c] EXCEPT !.pc = "call",
                                    !.handler = _handler_cache[key]]
            ELSE Goto(c, "construct")]
    /\ UNCHANGED <<_datum_cache, _handler_cache, _resource_cache>>
    /\ retrieve_unchanged

\* ret = handler(rpath, **kwargs), the root looked up in root_map
get_spec_handler_construct(c) ==
    /\ callers[c].pc = "construct"
    /\ LET resource == callers[c].resource IN
       callers' = [callers EXCEPT ![c] =
            [callers[c] EXCEPT
                !.pc = "setitem",
                !.handler =
                    Construct(ChainMap_getitem(handler_reg, resource.spec),
                              handler_path(resource),
                              resource.resource_kwargs,
                              ChainMap_where(handler_reg, resource.spec))]]
    /\ UNCHANGED <<_datum_cache, _handler_cache, _resource_cache>>
    /\ retrieve_unchanged

\* h_cache[key] = ret; return ret
get_spec_handler_setitem(c) ==
    /\ callers[c].pc = "setitem"
    /\ _handler_cache' = h_cache_setitem(callers[c].h_cache,
                                         handler_key(callers[c].resource),
                                         callers[c].handler)
    /\ callers' = [callers EXCEPT ![c] = Goto(c, "call")]
    /\ UNCHANGED <<_datum_cache, _resource_cache>>
    /\ retrieve_unchanged

\* core.retrieve: the handler is called with the datum_kwargs and the
\* result is stored in the datum cache and returned
retrieve_store(c) ==
    /\ callers[c].pc = "call"
    /\ LET value == Call(callers[c].handler, callers[c].datum.datum_kwargs) IN
        /\ _datum_cache' = Put(_datum_cache, callers[c].eid, value)
        /\ callers' = [callers EXCEPT ![c] =
                [callers[c] EXCEPT !.pc = "done", !.ret = value]]
    /\ UNCHANGED <<_handler_cache, _resource_cache>>
    /\ retrieve_unchanged

\* the caller has its value and is free to call again
retrieve_return(c) ==
    /\ callers[c].pc = "done"
    /\ callers' = [callers EXCEPT ![c] = Idle]
    /\ UNCHANGED <<_datum_cache, _handler_cache, _resource_cache>>
    /\ retrieve_unchanged

RetrieveCall == \E c \in Callers, eid \in 1..3 : retrieve_call(c, eid)

RetrieveLookup == \E c \in Callers : retrieve_lookup(c)

GetSpecHandlerResource == \E c \in Callers : get_spec_handler_resource(c)

GetSpecHandlerTry == \E c \in Callers : get_spec_handler_try(c)

GetSpecHandlerConstruct == \E c \in Callers : get_spec_handler_construct(c)

GetSpecHandlerSetitem == \E c \in Callers : get_spec_handler_setitem(c)

RetrieveStore == \E c \in Callers : retrieve_store(c)

RetrieveReturn == \E c \in Callers : retrieve_return(c)

\* a store that holds two resources with one datum each (datum 3 is
\* stored nowhere), a registry that may bind their spec, a root_map, and
\* cold caches
InitShared ==
    /\ \E r1, r2 \in Roots, kw \in DatumKwargs :
        /\ Resources = [u \in {1, 2} |->
                [uid |-> u, spec |-> "syn-mod", resource_path |-> <<"f">>,
                 root |-> IF u = 1 THEN r1 ELSE r2, resource_kwargs |-> 0]]
        /\ Datums = [e \in {1, 2} |->
                [datum_id |-> e, resource |-> e,
                 datum_kwargs |-> IF e = 1 THEN kw ELSE 0]]
    /\ dicts \in {[d \in DictIds |-> IF d = 0 THEN t ELSE EmptyReg] :
                    t \in TempHandlers}
    /\ handler_reg = <<0>>
    /\ contexts = <<>>
    /\ root_map \in RootMaps
    /\ _datum_cache = EmptyMap
    /\ _handler_cache = EmptyMap
    /\ _resource_cache = EmptyMap
    /\ last = [op |-> "init", err |-> OK]
    /\ ResourceUpdates = <<>>
    /\ files = EmptyMap
    /\ version = 1
    /\ call = Idle
    /\ sentinel = [c \in versioned_collection |-> 1]
    /\ Disconnected
    /\ config = "db1"
    /\ NoCallers

NextShared ==
    \/ RetrieveCall
    \/ RetrieveLookup
    \/ GetSpecHandlerResource
    \/ GetSpecHandlerTry
    \/ GetSpecHandlerConstruct
    \/ GetSpecHandlerSetitem
    \/ RetrieveStore
    \/ RetrieveReturn

SpecShared == InitShared /\ [][NextShared]_vars

\* the value a retrieve of a stored datum that runs alone on cold caches
\* computes
SequentialValue(eid) ==
    Call(get_spec_handler_uncached(Datums[eid].resource).ret,
         Datums[eid].datum_kwargs)

\* C35: for any interleaving of retrieve calls on one FileStore, with no
\* mutation going on, each call returns what a retrieve that ran alone
\* would have returned, and each key of the datum cache, the handler cache
\* and the resource cache maps to the value a sequential execution
\* produces for it; what a finished call has cached stays cached.
C35_ConcurrentRetrieve ==
    /\ \A c \in Callers : callers[c].pc = "done" =>
        /\ callers[c].err = callers[c].expect.err
        /\ callers[c].ret = callers[c].expect.ret
        /\ callers[c].err = OK =>
            /\ callers[c].eid \in DOMAIN _datum_cache
            /\ callers[c].resource # None =>
                    handler_key(callers[c].resource) \in DOMAIN _handler_cache
    /\ \A eid \in DOMAIN _datum_cache :
            _datum_cache[eid] = SequentialValue(eid)
    /\ \A k \in DOMAIN _handler_cache :
            _handler_cache[k] = get_spec_handler_uncached(k[1]).ret
    /\ \A uid \in DOMAIN _resource_cache :
            _resource_cache[uid] = Resources[uid]

\* two retrieves of different datums overlapped, both constructed their
\* handler, and both are over
C35_Witness ==
    /\ callers[1].pc = "done"
    /\ callers[2].pc = "done"
    /\ callers[1].eid # callers[2].eid
    /\ callers[1].err = OK
    /\ callers[2].err = OK
    /\ callers[1].h_cache = EmptyMap
    /\ callers[2].h_cache = EmptyMap
    /\ callers[1].resource # None
    /\ callers[2].resource # None
    /\ callers[1].ret = SequentialValue(callers[1].eid)
    /\ DOMAIN _datum_cache = {1, 2}

\* C36: the instance get_spec_handler returns was constructed by the
\* constructor that the registry in force, overlay first, binds to the
\* spec of the resource, also when two constructors share a __name__.
C36_BuiltByBoundConstructor ==
    [][\A uid \in DOMAIN Resources :
        (get_spec_handler_step(uid) /\ last'.err = OK) =>
            get_spec_handler(uid).ret.ctor =
                ChainMap_getitem(handler_reg, Resources[uid].spec)
      ]_vars

\* ------------------------------------- relocations by two callers at once
\* change_root statement by statement, while another caller runs
\* shift_root between any two of its statements
NextInterleaved ==
    \/ call = Idle /\ InsertResourceMove
    \/ call = Idle /\ InsertDatumMove
    \/ call = Idle /\ RegisterFileHandler
    \/ call = Idle /\ WriteFile
    \/ call # Idle /\ ShiftRoot
    \/ ChangeRootEnter
    \/ ChangeRootCopy
    \/ ChangeRootUpdate
    \/ ChangeRootUnlink
    \/ ChangeRootNuke

SpecInterleaved == Init /\ [][NextInterleaved]_vars

\* the history of every resource is a chain that ends at the stored record
HistoryChained ==
    \A uid \in DOMAIN Resources :
        LET h == get_history(uid).ret IN
        h # <<>> =>
            /\ \A i \in 2..Len(h) : h[i].old = h[i - 1].new
            /\ h[Len(h)].new = Resources[uid]

\* the first record of a resource starts at the Resource as inserted
HistoryStarts ==
    \A uid \in DOMAIN Resources :
        (get_history(uid).ret = <<>> /\ get_history(uid).ret' # <<>>) =>
            get_history(uid).ret'[1].old = Resources[uid]

\* C37: in every state reached by shift_root and change_root calls, one
\* after the other or interleaved, the history of every resource, by
\* time, is a chain: the first record's old is the Resource as inserted,
\* every later record's old is the record before's new, and the last
\* record's new is the Resource stored.
C37_HistoryIsChain == []HistoryChained /\ [][HistoryStarts]_vars

\* C38: once change_root has committed the metadata update, whether it
\* then returns or raises while deleting the originals, get_spec_handler
\* uses the stored record with the new root: the instance it returns is
\* built on the path under the new root, and the resource cache holds no
\* record with the old root.
C38_NothingFromOldRoot ==
    [][(/\ last'.op = "change_root"
        /\ Len(ResourceUpdates') > Len(ResourceUpdates)) =>
            \A uid \in DOMAIN Resources :
                ResourceUpdates'[Len(ResourceUpdates')].resource = uid =>
                    /\ uid \in DOMAIN _resource_cache' =>
                            _resource_cache'[uid] = Resources'[uid]
                    /\ get_spec_handler(uid)'.err = OK =>
                            get_spec_handler(uid)'.ret.path =
                                handler_path(Resources[uid])'
      ]_vars

\* ------------------------------------------------------------ reconfigure
\* The FileStore is pointed at another database.  The tables of the model
\* are those of the database the resource and datum handles reach; the
\* database reconfigured to is empty, and nothing is inserted after that
\* (a new Resource would get a uid of its own).

Configs == {"db1", "db2"}

\* the collection `name` of the database a configuration names
get_collection(cfg, name) == name \o "@" \o cfg

reconfigure_unchanged ==
    UNCHANGED <<dicts, handler_reg, contexts, root_map, _datum_cache,
                _handler_cache, _resource_cache, files, version, call,
                sentinel, caller_vars>>

\* a collection property is read: the handle is opened on the database
\* configured when it is None, and returned as it is otherwise
collection_opened(r) ==
    /\ __db' = r.db
    /\ __conn' = r.conn
    /\ UNCHANGED <<Resources, Datums, ResourceUpdates, config>>
    /\ reconfigure_unchanged

ResourceColConfigured ==
    /\ __res_col' = collection_property(__res_col,
                        get_collection(config, "resource")).col
    /\ last' = [op |-> "_resource_col", err |-> OK]
    /\ UNCHANGED <<__datum_col, __res_update_col>>
    /\ collection_opened(collection_property(__res_col, "resource"))

ResourceUpdateColConfigured ==
    /\ __res_update_col' = collection_property(__res_update_col,
                        get_collection(config, "resource_update")).col
    /\ last' = [op |-> "_resource_update_col", err |-> OK]
    /\ UNCHANGED <<__res_col, __datum_col>>
    /\ collection_opened(collection_property(__res_update_col,
                                             "resource_update"))

DatumColConfigured ==
    /\ __datum_col' = collection_property(__datum_col,
                        get_collection(config, "datum")).col
    /\ last' = [op |-> "_datum_col", err |-> OK]
    /\ UNCHANGED <<__res_col, __res_update_col>>
    /\ collection_opened(collection_property(__datum_col, "datum"))

\* reconfigure(config): disconnect(), then self.config = config
reconfigure_step(cfg) ==
    /\ cfg # config
    /\ config = "db1"
    /\ __db' = "None"
    /\ __conn' = "None"
    /\ __datum_col' = "None"
    /\ __res_col' = "None"
    /\ UNCHANGED __res_update_col
    /\ config' = cfg
    /\ Resources' = EmptyMap
    /\ Datums' = EmptyMap
    /\ ResourceUpdates' = IF __res_update_col = "None" THEN <<>>
                          ELSE ResourceUpdates
    /\ last' = [op |-> "reconfigure", err |-> OK]
    /\ reconfigure_unchanged

Reconfigure == \E cfg \in Configs : reconfigure_step(cfg)

NextReconfigure ==
    \/ config = "db1" /\ InsertResource
    \/ config = "db1" /\ InsertDatum
    \/ config = "db1" /\ RegisterHandler
    \/ Retrieve
    \/ ResourceColConfigured
    \/ ResourceUpdateColConfigured
    \/ DatumColConfigured
    \/ Reconfigure

SpecReconfigure == Init /\ [][NextReconfigure]_vars

\* every open handle is a collection of the database configured
HandlesOnConfigured ==
    /\ __res_col \in {"None", get_collection(config, "resource")}
    /\ __datum_col \in {"None", get_collection(config, "datum")}
    /\ __res_update_col \in
            {"None", get_collection(config, "resource_update")}

\* a retrieve that returns a value returns it for a datum of the database
\* configured, through a resource of that database
ServedFromConfigured ==
    \A eid \in DatumIds :
        (retrieve_step(eid) /\ last'.err = OK) =>
            /\ eid \in DOMAIN Datums
            /\ Datums[eid].resource \in DOMAIN Resources

\* C39: after reconfigure(config) to another store every access goes to
\* that store: the resource, datum and resource_update handles are those
\* of the store configured, and no value, handler or resource cached from
\* the store before is served.
C39_ReconfigureSwitchesStore ==
    []HandlesOnConfigured /\ [][ServedFromConfigured]_vars

\* ------------------------------------------------- copying under a root_map
\* copying the files of a resource while a root_map may be in force
NextMapped ==
    \/ InsertResourceMove
    \/ InsertDatumMove
    \/ RegisterFileHandler
    \/ WriteFile
    \/ SetRootMap
    \/ CopyFiles

SpecMapped == Init /\ [][NextMapped]_vars

\* the resource has a root, a handler is bound to its spec, and each of
\* its files exists at the place the stored root and resource_path give,
\* which lies under the stored root
UnderStoredRoot(uid) ==
    /\ Resources[uid].root # <<>>
    /\ ChainMap_contains(handler_reg, Resources[uid].spec)
    /\ \A e \in DatumsOf(uid) :
        /\ StoredPlace(e) \in DOMAIN files
        /\ startswith(StoredPlace(e), Resources[uid].root)

\* C40: copy_files does not depend on root_map: for a resource whose files
\* all lie under its stored root, copy_files to another root succeeds,
\* whatever root_map holds, and the files it copies are the files under
\* the stored root.
C40_CopyIgnoresRootMap ==
    [][\A uid \in DOMAIN Resources, new_root \in NewRoots, hook \in Hooks :
        (/\ copy_files_step(UidArg(uid), new_root, FALSE, hook)
         /\ UnderStoredRoot(uid)
         /\ new_root # Resources[uid].root) =>
            LET r == copy_files(UidArg(uid), new_root, FALSE, hook) IN
            /\ r.err = OK
            /\ {r.ret[k][1] : k \in DOMAIN r.ret} =
                    {StoredPlace(e) : e \in DatumsOf(uid)}
      ]_vars

====
